---------------------------- MODULE Spec2Model ----------------------------
(***************************************************************************)
(* A model of the crawl -> index -> query pipeline of the search engine:   *)
(* web_spider.py (WebSpider), html_indexer.py (HtmlIndexer) and            *)
(* query_processor.py (QueryProcessor).                                    *)
(*                                                                         *)
(* Python strings (texts, words, URLs, document ids) are sequences of      *)
(* one-character strings, so that splitting, stripping, lower-casing and   *)
(* formatting are computed character by character as the code does.        *)
(* A Python dict is a function; where the code depends on the insertion    *)
(* order of a dict, the keys are kept in a sequence.                       *)
(***************************************************************************)
EXTENDS Integers, Sequences, FiniteSets, TLC

VARIABLES
    zip_exists,         \* the archive file exists (Path(zip_path).exists())
    zip_valid,          \* zipfile.ZipFile can open it
    zip_names,          \* zip_ref.namelist(): the entry names, in archive order
    zip_content,        \* entry name -> parsed view of the entry's HTML
    spider,             \* the WebSpider object
    max_pages,          \* argument of crawl_breadth_first (None is NoLimit)
    max_workers,        \* argument of crawl_breadth_first
    html_cache,         \* local dict of _crawl_breadth_first_chunked
    batch,              \* local list of the coordinator: URLs popped for this batch
    futures,            \* indices of batch whose future is not yet collected
    documents,          \* argument of build_index_from_crawled_documents
    anchor_texts_map,   \* argument of build_index_from_crawled_documents
    indexer,            \* the HtmlIndexer object
    last_total_count,   \* QueryProcessor.last_total_count
    last_query,         \* the query string of the last process_query call
    last_result,        \* the list the last process_query call returned
    callers,            \* the threads that share the QueryProcessor
    last_path,          \* argument of the last _generate_document_id call
    last_doc_id,        \* the id that call returned
    pc,                 \* position of the caller / the crawl coordinator
    raised              \* the exception surfaced to the caller, or "none"

vars == <<zip_exists, zip_valid, zip_names, zip_content, spider, max_pages,
          max_workers, html_cache, batch, futures, documents, anchor_texts_map,
          indexer, last_total_count, last_query, last_result, callers,
          last_path, last_doc_id, pc, raised>>

archive_vars == <<zip_exists, zip_valid, zip_names, zip_content>>
crawl_vars == <<spider, max_pages, max_workers, html_cache, batch, futures>>
build_vars == <<documents, anchor_texts_map>>
query_vars == <<last_total_count, last_query, last_result, callers>>
id_vars == <<last_path, last_doc_id>>

---------------------------------------------------------------------------
(* Generic helpers *)

Range(s) == {s[i] : i \in DOMAIN s}

\* d[k] = v on a dict d (a function): the key is added or its value replaced
DictSet(d, k, v) == (k :> v) @@ d

\* dict.get(k, default)
DictGet(d, k, default) == IF k \in DOMAIN d THEN d[k] ELSE default

EmptyDict == [x \in {} |-> 0]

\* the function f itself, with its values computed once
Enumerated(f) == f @@ EmptyDict

\* All sequences over S without repetition, of length at most n
InjectiveSeqs(S, n) ==
    UNION {{s \in [1..k -> S] : \A i, j \in 1..k : i # j => s[i] # s[j]} : k \in 0..n}

---------------------------------------------------------------------------
(* Characters and Python str methods *)

ascii_lowercase == <<"a", "b", "c", "d", "e", "f", "g", "h", "i", "j", "k", "l", "m",
                     "n", "o", "p", "q", "r", "s", "t", "u", "v", "w", "x", "y", "z">>
ascii_uppercase == <<"A", "B", "C", "D", "E", "F", "G", "H", "I", "J", "K", "L", "M",
                     "N", "O", "P", "Q", "R", "S", "T", "U", "V", "W", "X", "Y", "Z">>
digits == <<"0", "1", "2", "3", "4", "5", "6", "7", "8", "9">>

\* str.split() with no argument splits on runs of whitespace
Whitespace == {" ", "\t", "\n"}

\* the argument of word.strip(...) in the tokenizers
Punctuation == {".", ",", "!", "?", ";", ":", "\"", "(", ")", "[", "]", "{", "}"}

LowerChar(c) ==
    IF \E i \in DOMAIN ascii_uppercase : ascii_uppercase[i] = c
    THEN ascii_lowercase[CHOOSE i \in DOMAIN ascii_uppercase : ascii_uppercase[i] = c]
    ELSE c

\* str.lower()
lower(s) == [i \in DOMAIN s |-> LowerChar(s[i])]

RECURSIVE lstrip(_, _)
lstrip(s, chars) ==
    IF s # <<>> /\ Head(s) \in chars THEN lstrip(Tail(s), chars) ELSE s

RECURSIVE rstrip(_, _)
rstrip(s, chars) ==
    IF s # <<>> /\ s[Len(s)] \in chars
    THEN rstrip(SubSeq(s, 1, Len(s) - 1), chars)
    ELSE s

\* str.strip(chars)
strip(s, chars) == rstrip(lstrip(s, chars), chars)

RECURSIVE SplitWords(_, _, _)
SplitWords(text, cur, acc) ==
    IF text = <<>>
    THEN IF cur = <<>> THEN acc ELSE Append(acc, cur)
    ELSE IF Head(text) \in Whitespace
         THEN SplitWords(Tail(text), <<>>, IF cur = <<>> THEN acc ELSE Append(acc, cur))
         ELSE SplitWords(Tail(text), Append(cur, Head(text)), acc)

\* str.split()
split(text) == SplitWords(text, <<>>, <<>>)

RECURSIVE join(_, _)
\* sep.join(list)
join(sep, list) ==
    IF list = <<>> THEN <<>>
    ELSE IF Len(list) = 1 THEN list[1]
    ELSE list[1] \o sep \o join(sep, Tail(list))

\* str.endswith(suffix)
endswith(s, suffix) ==
    /\ Len(suffix) <= Len(s)
    /\ SubSeq(s, Len(s) - Len(suffix) + 1, Len(s)) = suffix

\* str.startswith(prefix)
startswith(s, prefix) ==
    /\ Len(prefix) <= Len(s)
    /\ SubSeq(s, 1, Len(prefix)) = prefix

RECURSIVE Decimal(_)
\* str(n) for n >= 0
Decimal(n) ==
    IF n < 10 THEN <<digits[n + 1]>>
    ELSE Append(Decimal(n \div 10), digits[(n % 10) + 1])

RECURSIVE ZeroPad(_, _)
ZeroPad(s, width) == IF Len(s) >= width THEN s ELSE ZeroPad(<<"0">> \o s, width)

\* f"{n:04d}"
Format04d(n) == ZeroPad(Decimal(n), 4)

---------------------------------------------------------------------------
(* HtmlIndexer: tokenizer *)

\* HtmlIndexer._get_default_stop_words
stop_words == {
    <<"a">>, <<"a", "n">>, <<"a", "n", "d">>, <<"a", "r", "e">>, <<"a", "s">>, <<"a", "t">>,
    <<"b", "e">>, <<"b", "y">>, <<"f", "o", "r">>, <<"f", "r", "o", "m">>, <<"h", "a", "s">>,
    <<"h", "e">>, <<"i", "n">>, <<"i", "s">>, <<"i", "t">>, <<"i", "t", "s">>, <<"o", "f">>,
    <<"o", "n">>, <<"t", "h", "a", "t">>, <<"t", "h", "e">>, <<"t", "o">>, <<"w", "a", "s">>,
    <<"w", "i", "l", "l">>, <<"w", "i", "t", "h">>, <<"y", "o", "u">>, <<"y", "o", "u", "r">>,
    <<"t", "h", "i", "s">>, <<"b", "u", "t">>, <<"o", "r">>, <<"n", "o", "t">>,
    <<"h", "a", "v", "e">>, <<"h", "a", "d">>, <<"w", "h", "a", "t">>, <<"w", "h", "e", "n">>,
    <<"w", "h", "e", "r", "e">>, <<"w", "h", "o">>, <<"w", "h", "i", "c", "h">>,
    <<"w", "h", "y">>, <<"h", "o", "w">>, <<"a", "l", "l">>, <<"a", "n", "y">>,
    <<"b", "o", "t", "h">>, <<"e", "a", "c", "h">>, <<"f", "e", "w">>, <<"m", "o", "r", "e">>,
    <<"m", "o", "s", "t">>, <<"o", "t", "h", "e", "r">>, <<"s", "o", "m", "e">>,
    <<"s", "u", "c", "h">>, <<"n", "o">>, <<"n", "o", "r">>, <<"o", "n", "l", "y">>,
    <<"o", "w", "n">>, <<"s", "a", "m", "e">>, <<"s", "o">>, <<"t", "h", "a", "n">>,
    <<"t", "o", "o">>, <<"v", "e", "r", "y">>, <<"c", "a", "n">>, <<"m", "a", "y">>,
    <<"s", "h", "o", "u", "l", "d">>, <<"w", "o", "u", "l", "d">>,
    <<"c", "o", "u", "l", "d">>}

\* alphabetic_pattern.match(word): ^[a-zA-Z]+$
alphabetic_pattern(word) ==
    /\ word # <<>>
    /\ \A i \in DOMAIN word :
          \E k \in DOMAIN ascii_lowercase :
              word[i] = ascii_lowercase[k] \/ word[i] = ascii_uppercase[k]

\* a variant that records 1-based positions
AppendPositionOneBased(word_positions, word, position) ==
    DictSet(word_positions, word,
            Append(DictGet(word_positions, word, <<>>), position + 1))

\* word_positions[cleaned_word].append(position) on a defaultdict(list)
AppendPosition(word_positions, word, position) ==
    DictSet(word_positions, word, Append(DictGet(word_positions, word, <<>>), position))

\* the loop body's test: the cleaned word is kept as a token
KeepsWord(cleaned_word) ==
    /\ cleaned_word # <<>>
    /\ alphabetic_pattern(cleaned_word)
    /\ cleaned_word \notin stop_words

RECURSIVE ScanWords(_, _, _, _)
\* the loop "for word in text.split()" of the two tokenizers
ScanWords(raw, words, word_positions, position) ==
    IF raw = <<>>
    THEN [words |-> words, word_positions |-> word_positions]
    ELSE LET cleaned_word == lower(strip(Head(raw), Punctuation))
         IN  IF KeepsWord(cleaned_word)
             THEN ScanWords(Tail(raw), Append(words, cleaned_word),
                            AppendPosition(word_positions, cleaned_word, position),
                            position + 1)
             ELSE ScanWords(Tail(raw), words, word_positions, position)

\* soup.get_text(separator=' ') on the parsed document
get_text(html_content) == html_content.text

\* HtmlIndexer.extract_words_with_positions
extract_words_with_positions(html_content) ==
    ScanWords(split(get_text(html_content)), <<>>, EmptyDict, 0)

\* a variant that appends the joined anchor text once
TextWithAnchorsOnce(text, anchors) ==
    IF anchors # <<>>
    THEN text \o <<" ">> \o join(<<" ">>, anchors)
    ELSE text

\* the text the anchor-augmented tokenizer splits
TextWithAnchors(text, anchors) ==
    IF anchors # <<>>
    THEN LET anchor_text_combined == join(<<" ">>, anchors)
         IN  text \o <<" ">> \o anchor_text_combined \o <<" ">> \o anchor_text_combined
    ELSE text

\* HtmlIndexer.extract_words_with_positions_and_anchors
extract_words_with_positions_and_anchors(html_content, anchors) ==
    ScanWords(split(TextWithAnchors(get_text(html_content), anchors)),
              <<>>, EmptyDict, 0)

\* collections.Counter(words)
Counter(words) ==
    [t \in Range(words) |-> Cardinality({i \in DOMAIN words : words[i] = t})]

---------------------------------------------------------------------------
(* HtmlIndexer: the object and document ids *)

\* HtmlIndexer.__init__
NewIndexer ==
    [used_ids |-> {}, path_to_id |-> EmptyDict, id_to_path |-> EmptyDict,
     file_words |-> EmptyDict, word_files |-> EmptyDict,
     document_list |-> EmptyDict, inverted_index |-> EmptyDict,
     url_list |-> {}, url_status |-> EmptyDict, anchor_texts |-> EmptyDict,
     total_documents |-> 0, avg_doc_length |-> [sum |-> 0, count |-> 1],
     is_indexed |-> FALSE]

\* the loop bound of _generate_document_id
max_attempts == 1000

\* random.randint(1000, 9999): the lowest number drawn
RandomLow == 1000

\* the model draws from RandomSpan numbers starting at RandomLow
RandomSpan == 2

RandomNumbers == RandomLow .. (RandomLow + RandomSpan - 1)

\* What the random generator does during one _generate_document_id call:
\* either the first drawn number whose id is unused is r, or every one of
\* the max_attempts draws gave a used id (exhausted).
Draws == [exhausted : {FALSE}, r : RandomNumbers]
            \cup {[exhausted |-> TRUE, r |-> RandomLow]}

LastIndexOf(s, c) ==
    IF \E i \in DOMAIN s : s[i] = c
    THEN CHOOSE i \in DOMAIN s : s[i] = c /\ \A j \in DOMAIN s : s[j] = c => j <= i
    ELSE 0

\* Path(p).name for an entry name p
PathName(p) == SubSeq(p, LastIndexOf(p, "/") + 1, Len(p))

\* Path(p).stem: the name without its final suffix
PathStem(p) ==
    LET name == PathName(p)
        i == LastIndexOf(name, ".")
    IN  IF 1 < i /\ i < Len(name) THEN SubSeq(name, 1, i - 1) ELSE name

RECURSIVE FirstFreeCounter(_, _, _)
\* the while loop of the fallback: the first counter whose id is unused
FirstFreeCounter(filename, used_ids, counter) ==
    IF (filename \o Format04d(counter)) \in used_ids
    THEN FirstFreeCounter(filename, used_ids, counter + 1)
    ELSE counter

\* the draw can happen in a call for original_path on indexer ix
DrawPossible(ix, original_path, draw) ==
    \/ original_path \in DOMAIN ix.path_to_id
    \/ LET filename == PathStem(original_path)
       IN  IF draw.exhausted
           THEN \/ max_attempts = 0
                \/ \E r \in RandomNumbers : (filename \o Decimal(r)) \in ix.used_ids
           ELSE /\ max_attempts > 0
                /\ (filename \o Decimal(draw.r)) \notin ix.used_ids

\* the id a call for a new path adopts
NewDocumentId(ix, original_path, draw) ==
    LET filename == PathStem(original_path)
    IN  IF draw.exhausted
        THEN filename \o Format04d(FirstFreeCounter(filename, ix.used_ids, 1))
        ELSE filename \o Decimal(draw.r)

\* a variant that leaves used_ids alone
StoreMappingsUnrecorded(ix, original_path, doc_id) ==
    [ix EXCEPT !.path_to_id = DictSet(@, original_path, doc_id),
               !.id_to_path = DictSet(@, doc_id, original_path)]

\* "Store mappings"
StoreMappings(ix, original_path, doc_id) ==
    [ix EXCEPT !.used_ids = @ \cup {doc_id},
               !.path_to_id = DictSet(@, original_path, doc_id),
               !.id_to_path = DictSet(@, doc_id, original_path)]

\* HtmlIndexer._generate_document_id: the indexer after the call; the
\* returned id is path_to_id[original_path] of the result
generate_document_id(ix, original_path, draw) ==
    IF original_path \in DOMAIN ix.path_to_id
    THEN ix
    ELSE StoreMappings(ix, original_path, NewDocumentId(ix, original_path, draw))

---------------------------------------------------------------------------
(* HtmlIndexer: TF-IDF and posting lists *)

\* math.log(n / d) in units of 10^-3, for 1 <= d <= n <= 8
SmallLogTable ==
    << <<0>>,
       <<693, 0>>,
       <<1099, 405, 0>>,
       <<1386, 693, 288, 0>>,
       <<1609, 916, 511, 223, 0>>,
       <<1792, 1099, 693, 405, 182, 0>>,
       <<1946, 1253, 847, 560, 336, 154, 0>>,
       <<2079, 1386, 981, 693, 470, 288, 134, 0>> >>

\* math.log(n / d) in units of 10^-3 for the collection sizes n of the
\* model: 1..8, 101 and 150, and 1 <= d <= n
LogTable ==
    SmallLogTable
    @@ (101 :> <<
         4615, 3922, 3517, 3229, 3006, 2823, 2669, 2536, 2418, 2313,
         2217, 2130, 2050, 1976, 1907, 1843, 1782, 1725, 1671, 1619,
         1571, 1524, 1480, 1437, 1396, 1357, 1319, 1283, 1248, 1214,
         1181, 1149, 1119, 1089, 1060, 1032, 1004, 978, 952, 926, 902,
         877, 854, 831, 808, 786, 765, 744, 723, 703, 683, 664, 645, 626,
         608, 590, 572, 555, 538, 521, 504, 488, 472, 456, 441, 425, 410,
         396, 381, 367, 352, 338, 325, 311, 298, 284, 271, 258, 246, 233,
         221, 208, 196, 184, 172, 161, 149, 138, 126, 115, 104, 93, 83,
         72, 61, 51, 40, 30, 20, 10, 0 >>)
    @@ (150 :> <<
         5011, 4317, 3912, 3624, 3401, 3219, 3065, 2931, 2813, 2708,
         2613, 2526, 2446, 2372, 2303, 2238, 2177, 2120, 2066, 2015,
         1966, 1920, 1875, 1833, 1792, 1753, 1715, 1678, 1643, 1609,
         1577, 1545, 1514, 1484, 1455, 1427, 1400, 1373, 1347, 1322,
         1297, 1273, 1249, 1226, 1204, 1182, 1160, 1139, 1119, 1099,
         1079, 1059, 1040, 1022, 1003, 985, 968, 950, 933, 916, 900, 884,
         868, 852, 836, 821, 806, 791, 777, 762, 748, 734, 720, 707, 693,
         680, 667, 654, 641, 629, 616, 604, 592, 580, 568, 556, 545, 533,
         522, 511, 500, 489, 478, 467, 457, 446, 436, 426, 416, 405, 396,
         386, 376, 366, 357, 347, 338, 329, 319, 310, 301, 292, 283, 274,
         266, 257, 248, 240, 232, 223, 215, 207, 198, 190, 182, 174, 166,
         159, 151, 143, 135, 128, 120, 113, 105, 98, 91, 83, 76, 69, 62,
         55, 48, 41, 34, 27, 20, 13, 7, 0 >>)

RECURSIVE FracCmp(_, _, _, _)
\* the sign of a/b - c/d for a, c >= 0 and b, d > 0, by continued fractions
\* (no product is formed, so large numerators stay within the integers)
FracCmp(a, b, c, d) ==
    LET q1 == a \div b
        q2 == c \div d
        r1 == a % b
        r2 == c % d
    IN  IF q1 # q2 THEN (IF q1 < q2 THEN -1 ELSE 1)
        ELSE IF r1 = 0 /\ r2 = 0 THEN 0
        ELSE IF r1 = 0 THEN -1
        ELSE IF r2 = 0 THEN 1
        ELSE FracCmp(d, r2, b, r1)

\* A float score is the fraction n / d, n >= 0, d > 0.
ScoreZero == [n |-> 0, d |-> 1]
ScoreLess(a, b) == FracCmp(a.n, a.d, b.n, b.d) = -1
ScoreEq(a, b) == FracCmp(a.n, a.d, b.n, b.d) = 0

\* a variant without the idf factor
calculate_tf(ix, term_freq, doc_length, doc_freq) ==
    IF term_freq = 0 \/ doc_freq = 0
    THEN ScoreZero
    ELSE [n |-> term_freq * 1000, d |-> doc_length]

\* HtmlIndexer.calculate_tf_idf
calculate_tf_idf(ix, term_freq, doc_length, doc_freq) ==
    IF term_freq = 0 \/ doc_freq = 0
    THEN ScoreZero
    ELSE [n |-> term_freq * LogTable[ix.total_documents][doc_freq],
          d |-> doc_length]

\* The place of element i in a stable sort by score, highest first: behind
\* every element with a higher score and every earlier element with the
\* same score.
PlaceInSort(scores, i) ==
    1 + Cardinality({j \in DOMAIN scores :
                        \/ ScoreLess(scores[i], scores[j])
                        \/ (j < i /\ ~ScoreLess(scores[j], scores[i]))})

\* the index of the element that a stable sort puts at each place
SortOrderOf(place) == [k \in DOMAIN place |-> CHOOSE i \in DOMAIN place : place[i] = k]

\* list.sort / sorted with a score key and reverse=True, as the indices of
\* the elements in sorted order
SortOrder(scores) ==
    SortOrderOf(Enumerated([i \in DOMAIN scores |-> PlaceInSort(scores, i)]))

\* the items in the given order of their indices
Permuted(items, order) == [k \in DOMAIN items |-> items[order[k]]]

\* postings.sort(key=lambda p: p.tf_idf, reverse=True): a stable sort
sort_postings(postings) ==
    Permuted(postings,
             SortOrder(Enumerated([i \in DOMAIN postings |-> postings[i].tf_idf])))

---------------------------------------------------------------------------
(* HtmlIndexer.build_index_from_crawled_documents *)

\* The parsed view of an HTML string, as BeautifulSoup(html, 'lxml') gives it:
\*   parses  the parser accepts the string (it raises otherwise)
\*   text    soup.get_text(separator=' ')
\*   tags    the a/link/img/script/iframe tags in document order, each with
\*           its href or src value (url) and its get_text(strip=True) (text)
Html(parses, text, tags) == [parses |-> parses, text |-> text, tags |-> tags]
Tag(name, url, text) == [name |-> name, url |-> url, text |-> text]

\* HtmlIndexer.extract_urls_from_html with base_url = ""
extract_urls_from_html(html_content) ==
    LET found == SelectSeq(html_content.tags,
                    LAMBDA tag : tag.name \in {"a", "link", "img", "script", "iframe"}
                                 /\ tag.url # <<>>)
    IN  [i \in DOMAIN found |-> found[i].url]

\* lines 476-508: the first pass over one (url, html_content) item
FirstPassItem(acc, url, html_content, amap, draw) ==
    LET ix1 == generate_document_id(acc.ix, url, draw)
        doc_id == ix1.path_to_id[url]
        anchors == DictGet(amap, url, <<>>)
    IN  IF ~html_content.parses
        THEN [acc EXCEPT !.ix = ix1, !.raised = "ParserError",
                         !.possible = @ /\ DrawPossible(acc.ix, url, draw)]
        ELSE
        LET ex == extract_words_with_positions_and_anchors(html_content, anchors)
            words == ex.words
            ix2 == [ix1 EXCEPT
                      !.anchor_texts =
                          IF anchors # <<>> THEN DictSet(@, doc_id, anchors) ELSE @,
                      !.url_list = @ \cup Range(extract_urls_from_html(html_content)),
                      !.document_list =
                          DictSet(@, doc_id,
                                  [doc_id |-> doc_id, url |-> url,
                                   length |-> Len(words),
                                   unique_words |-> Cardinality(Range(words))]),
                      !.file_words = DictSet(@, doc_id, Range(words))]
        IN  [ix |-> ix2,
             order |-> IF doc_id \in Range(acc.order)
                       THEN acc.order ELSE Append(acc.order, doc_id),
             document_word_counts |->
                 DictSet(acc.document_word_counts, doc_id, Counter(words)),
             document_words_with_positions |->
                 DictSet(acc.document_words_with_positions, doc_id, ex),
             raised |-> acc.raised,
             possible |-> acc.possible /\ DrawPossible(acc.ix, url, draw)]

RECURSIVE FirstPassOver(_, _, _, _, _, _)
\* the items lo..hi of the loop, the first half and then the second
FirstPassOver(acc, docs, amap, draws, lo, hi) ==
    IF lo > hi \/ acc.raised # "none"
    THEN acc
    ELSE IF lo = hi
    THEN FirstPassItem(acc, docs[lo].url, docs[lo].html, amap, draws[lo])
    ELSE FirstPassOver(FirstPassOver(acc, docs, amap, draws, lo, (lo + hi) \div 2),
                       docs, amap, draws, ((lo + hi) \div 2) + 1, hi)

\* "for url, html_content in documents.items()", from the i-th item on
FirstPass(acc, docs, amap, draws, i) == FirstPassOver(acc, docs, amap, draws, i, Len(docs))

\* lines 523-525
word_doc_frequencies(document_word_counts) ==
    [word \in UNION {DOMAIN document_word_counts[d] : d \in DOMAIN document_word_counts}
        |-> Cardinality({d \in DOMAIN document_word_counts :
                            word \in DOMAIN document_word_counts[d]})]

\* lines 533-543
Posting(ix, p1, word, doc_id, doc_freq) ==
    LET term_freq == p1.document_word_counts[doc_id][word]
        doc_length == ix.document_list[doc_id].length
    IN  [doc_id |-> doc_id,
         term_frequency |-> term_freq,
         tf_idf |-> calculate_tf_idf(ix, term_freq, doc_length, doc_freq),
         positions |-> p1.document_words_with_positions[doc_id].word_positions[word]]

\* the postings of word for the documents of holders, in that order
PostingsOfHolders(ix, p1, word, doc_freq, holders) ==
    [k \in DOMAIN holders |-> Posting(ix, p1, word, holders[k], doc_freq)]

\* lines 529-544: "for doc_id, word_counts in document_word_counts.items()",
\* from the i-th document on
PostingsFrom(ix, p1, word, doc_freq, i) ==
    Enumerated(
        PostingsOfHolders(ix, p1, word, doc_freq,
            SelectSeq(SubSeq(p1.order, i, Len(p1.order)),
                      LAMBDA doc_id : word \in DOMAIN p1.document_word_counts[doc_id])))

\* a variant that records the collection size as the document frequency
IndexEntryAllDocuments(ix, p1, word, doc_freq) ==
    [word |-> word,
     document_frequency |-> Len(p1.order),
     postings |-> sort_postings(PostingsFrom(ix, p1, word, doc_freq, 1))]

\* lines 546-553
IndexEntry(ix, p1, word, doc_freq) ==
    [word |-> word,
     document_frequency |-> doc_freq,
     postings |-> sort_postings(PostingsFrom(ix, p1, word, doc_freq, 1))]

RECURSIVE SumOfLengths(_, _, _)
\* the sum of the lengths of the documents ids, taken length by length
SumOfLengths(document_list, ids, lengths) ==
    IF lengths = {} THEN 0
    ELSE LET n == CHOOSE x \in lengths : TRUE
         IN  n * Cardinality({d \in ids : document_list[d].length = n})
               + SumOfLengths(document_list, ids, lengths \ {n})

\* sum(doc.length for doc in self.document_list.values())
SumLengths(document_list, ids) ==
    SumOfLengths(document_list, ids, {document_list[d].length : d \in ids})

\* lines 510-517: the statistics
Statistics(ix0) ==
    [ix0 EXCEPT
       !.total_documents = Cardinality(DOMAIN ix0.document_list),
       !.avg_doc_length =
           IF Cardinality(DOMAIN ix0.document_list) > 0
           THEN [sum |-> SumLengths(ix0.document_list, DOMAIN ix0.document_list),
                 count |-> Cardinality(DOMAIN ix0.document_list)]
           ELSE @,
       !.url_status = [u \in DOMAIN @ \cup ix0.url_list |-> "unvisited"]]

\* a variant whose word_files lists only the first posting of each word
StoreEntriesFirstOnly(ix1, entries) ==
    [ix1 EXCEPT
       !.inverted_index = entries @@ @,
       !.word_files =
           [w \in DOMAIN entries |-> <<entries[w].postings[1].doc_id>>] @@ @,
       !.is_indexed = TRUE]

\* lines 549-558: the entries stored, with the legacy word_files
StoreEntries(ix1, entries) ==
    [ix1 EXCEPT
       !.inverted_index = entries @@ @,
       !.word_files =
           [w \in DOMAIN entries |->
               [i \in DOMAIN entries[w].postings |-> entries[w].postings[i].doc_id]] @@ @,
       !.is_indexed = TRUE]

\* lines 527-553: the entry of every word
IndexEntries(ix1, p1, df) ==
    Enumerated([word \in DOMAIN df |-> IndexEntry(ix1, p1, word, df[word])])

\* lines 519-558 on the indexer with its statistics
SecondPassOn(ix1, p1, df) == StoreEntries(ix1, IndexEntries(ix1, p1, df))

\* lines 510-558: statistics and the second pass
SecondPass(p1) ==
    SecondPassOn(Statistics(p1.ix), p1, word_doc_frequencies(p1.document_word_counts))

\* HtmlIndexer.build_index_from_crawled_documents(documents, anchor_texts_map),
\* with the random draws of its _generate_document_id calls as draws[i].
\* The result: the indexer after the call, the exception it raised or "none",
\* and whether the draws are ones the random generator can make.
build_index_from_crawled_documents(ix, docs, amap, draws) ==
    LET p1 == FirstPass([ix |-> ix, order |-> <<>>,
                         document_word_counts |-> EmptyDict,
                         document_words_with_positions |-> EmptyDict,
                         raised |-> "none", possible |-> TRUE],
                        docs, amap, draws, 1)
    IN  IF p1.raised # "none"
        THEN [ix |-> p1.ix, raised |-> p1.raised, possible |-> p1.possible]
        ELSE [ix |-> SecondPass(p1), raised |-> "none", possible |-> p1.possible]

---------------------------------------------------------------------------
(* The strings of the model's archives, documents and queries *)

U_a == <<"a", ".", "h", "t", "m", "l">>
U_b == <<"b", ".", "h", "t", "m", "l">>
U_c == <<"c", ".", "h", "t", "m">>
U_da == <<"d", "/", "a", ".", "h", "t", "m", "l">>
U_ea == <<"e", "/", "a", ".", "h", "t", "m", "l">>
U_fa == <<"f", "/", "a", ".", "h", "t", "m", "l">>
T_cat_dog == <<"c", "a", "t", " ", "d", "o", "g">>
T_dog_bird == <<"d", "o", "g", " ", "b", "i", "r", "d">>
T_mixed == <<"T", "h", "e", " ", "C", "a", "t", ".", "\n", "(", "d", "o", "g", ")", " ",
             "x", "1", " ", ".", ".", ".", " ", "c", "a", "t">>
A_beta_gamma == <<"b", "e", "t", "a", " ", "g", "a", "m", "m", "a">>
A_Cat == <<"C", "a", "t", ",">>
A_the_dog == <<"t", "h", "e", " ", "d", "o", "g">>
W_cat == <<"c", "a", "t">>
W_dog == <<"d", "o", "g">>
W_bird == <<"b", "i", "r", "d">>
W_beta == <<"b", "e", "t", "a">>
W_gamma == <<"g", "a", "m", "m", "a">>

\* max_pages = None
NoLimit == -1

\* the state of the objects before any call
ArchiveIdle ==
    /\ zip_exists = TRUE /\ zip_valid = TRUE
    /\ zip_names = <<>> /\ zip_content = EmptyDict

\* WebSpider.__init__(zip_path, start_file)
NewSpider(start) ==
    [start_file |-> start,
     visited_urls |-> {}, discovered_urls |-> {}, url_queue |-> <<>>,
     html_documents |-> <<>>, anchor_texts |-> EmptyDict, url_graph |-> EmptyDict,
     pages_crawled |-> 0, total_links_found |-> 0]

SpiderIdle ==
    /\ spider = NewSpider(<<>>)
    /\ max_pages = NoLimit /\ max_workers = 1
    /\ html_cache = EmptyDict /\ batch = <<>> /\ futures = {}

BuildIdle == documents = <<>> /\ anchor_texts_map = EmptyDict

\* the largest number of threads that share one QueryProcessor
MaxCallers == 2

\* a thread that has not called process_query yet
IdleCaller == [at |-> "idle", query |-> <<>>, results |-> <<>>, stored |-> 0, total_count |-> 0]

\* QueryProcessor.__init__
QueryNew ==
    /\ last_total_count = 0 /\ last_query = <<>> /\ last_result = <<>>
    /\ callers = [c \in 1..MaxCallers |-> IdleCaller]

IdsIdle == last_path = <<>> /\ last_doc_id = <<>>

---------------------------------------------------------------------------
(* SpecIds: any sequence of _generate_document_id calls on one HtmlIndexer *)

\* the paths of the calls: four share the stem "a"
IdPaths == {U_a, U_da, U_ea, U_fa, U_b}

InitIds ==
    /\ ArchiveIdle /\ SpiderIdle /\ BuildIdle /\ QueryNew /\ IdsIdle
    /\ indexer = NewIndexer
    /\ pc = "ids"
    /\ raised = "none"

\* one call self._generate_document_id(original_path)
GenerateDocumentId ==
    /\ pc = "ids"
    /\ \E original_path \in IdPaths, draw \in Draws :
          /\ DrawPossible(indexer, original_path, draw)
          /\ indexer' = generate_document_id(indexer, original_path, draw)
          /\ last_path' = original_path
          /\ last_doc_id' = indexer'.path_to_id[original_path]
    /\ UNCHANGED <<archive_vars, crawl_vars, build_vars, query_vars, pc, raised>>

NextIds == GenerateDocumentId

SpecIds == InitIds /\ [][NextIds]_vars

---------------------------------------------------------------------------
(* SpecIndex: build_index_from_crawled_documents on a fresh HtmlIndexer *)

\* the longest document map of SpecIndex
MaxDocs == 2

IndexUrls == {U_a, U_b, U_da}

IndexPages ==
    {Html(TRUE, T_cat_dog, <<>>),
     Html(TRUE, T_dog_bird, <<Tag("a", U_a, A_beta_gamma), Tag("img", U_c, <<>>)>>),
     Html(TRUE, T_mixed, <<>>),
     Html(FALSE, <<>>, <<>>)}

\* anchor_texts_map arguments: none, one inbox, inboxes with punctuation,
\* capitals and stop words, an empty inbox and an inbox of an absent URL
AnchorMaps ==
    {EmptyDict,
     (U_a :> <<A_beta_gamma>>),
     (U_a :> <<A_Cat, A_the_dog>>) @@ (U_b :> <<>>) @@ (U_da :> <<W_dog, W_dog>>)
         @@ (U_c :> <<W_bird>>)}

DocumentMaps ==
    UNION {{[i \in DOMAIN urls |-> [url |-> urls[i], html |-> pages[i]]] :
               pages \in [DOMAIN urls -> IndexPages]} :
           urls \in InjectiveSeqs(IndexUrls, MaxDocs)}

InitIndex ==
    /\ ArchiveIdle /\ SpiderIdle /\ QueryNew /\ IdsIdle
    /\ documents \in DocumentMaps
    /\ anchor_texts_map \in AnchorMaps
    /\ indexer = NewIndexer
    /\ pc = "build"
    /\ raised = "none"

\* indexer.build_index_from_crawled_documents(documents, anchor_texts_map)
BuildIndexFromCrawledDocuments ==
    /\ pc = "build"
    /\ \E draws \in [DOMAIN documents -> Draws] :
          LET res == build_index_from_crawled_documents(indexer, documents,
                                                        anchor_texts_map, draws)
          IN  /\ res.possible
              /\ indexer' = res.ix
              /\ raised' = res.raised
              /\ pc' = IF res.raised = "none" THEN "built" ELSE "failed"
    /\ UNCHANGED <<archive_vars, crawl_vars, build_vars, query_vars, id_vars>>

NextIndex == BuildIndexFromCrawledDocuments

SpecIndex == InitIndex /\ [][NextIndex]_vars

---------------------------------------------------------------------------
(* Vocabulary of the properties *)

\* Python's order on the characters that occur in document ids
CodeOrder == digits \o ascii_uppercase \o ascii_lowercase
CodeOf(c) == CHOOSE i \in DOMAIN CodeOrder : CodeOrder[i] = c

RECURSIVE StrLess(_, _)
\* a < b on Python strings
StrLess(a, b) ==
    IF b = <<>> THEN FALSE
    ELSE IF a = <<>> THEN TRUE
    ELSE IF Head(a) # Head(b) THEN CodeOf(Head(a)) < CodeOf(Head(b))
    ELSE StrLess(Tail(a), Tail(b))

\* The filtered token stream of a text, stated on its own: the cleaned
\* words that are alphabetic and no stop words, in text order
TokenStream(text) ==
    LET raw == split(text)
        cleaned == [i \in DOMAIN raw |-> lower(strip(raw[i], Punctuation))]
    IN  SelectSeq(cleaned, KeepsWord)

CountIn(seq, x) == Cardinality({i \in DOMAIN seq : seq[i] = x})

Built == pc = "built"

\* the postings of the built index, with their terms
AllPostings ==
    UNION {{[term |-> t, posting |-> indexer.inverted_index[t].postings[i]] :
               i \in DOMAIN indexer.inverted_index[t].postings} :
           t \in DOMAIN indexer.inverted_index}

\* the posting of term t for document d, if there is one
PostingsOf(t, d) ==
    IF t \in DOMAIN indexer.inverted_index
    THEN {p \in Range(indexer.inverted_index[t].postings) : p.doc_id = d}
    ELSE {}

---------------------------------------------------------------------------
(* Claims on the built index (SpecIndex) *)

\* C6: after build_index_from_crawled_documents, every term's recorded
\* document_frequency is the length of its posting list, no document has two
\* postings in one list, every posting's doc_id is a key of the document
\* table, and total_documents is the size of the document table.
C6_IndexConsistent ==
    Built =>
      /\ \A t \in DOMAIN indexer.inverted_index :
            LET e == indexer.inverted_index[t]
            IN  /\ e.document_frequency = Len(e.postings)
                /\ \A i, j \in DOMAIN e.postings :
                      i # j => e.postings[i].doc_id # e.postings[j].doc_id
                /\ \A i \in DOMAIN e.postings :
                      e.postings[i].doc_id \in DOMAIN indexer.document_list
      /\ indexer.total_documents = Cardinality(DOMAIN indexer.document_list)

\* a built index of two documents that share a term
C6_Witness ==
    /\ Built
    /\ indexer.total_documents >= 2
    /\ \E t \in DOMAIN indexer.inverted_index :
          indexer.inverted_index[t].document_frequency >= 2

\* C7 (as claimed): every posting list is sorted by TF-IDF descending, and
\* postings with equal TF-IDF are ordered by document id ascending.
C7_SortedWithIdTieBreak ==
    Built =>
      \A t \in DOMAIN indexer.inverted_index :
         LET ps == indexer.inverted_index[t].postings
         IN  \A i, j \in DOMAIN ps :
                i < j =>
                  \/ ScoreLess(ps[j].tf_idf, ps[i].tf_idf)
                  \/ /\ ScoreEq(ps[i].tf_idf, ps[j].tf_idf)
                     /\ StrLess(ps[i].doc_id, ps[j].doc_id)

\* C8: in every posting the positions are strictly increasing, as many as
\* the term_frequency, and each is a 0-based index below the document's
\* length at which the document's filtered token stream holds the term.
C8_PositionsMatchTokens ==
    Built =>
      \A i \in DOMAIN documents :
         LET d == indexer.path_to_id[documents[i].url]
             stream == TokenStream(
                          TextWithAnchors(documents[i].html.text,
                                          DictGet(anchor_texts_map, documents[i].url, <<>>)))
         IN  /\ indexer.document_list[d].length = Len(stream)
             /\ \A x \in AllPostings :
                   x.posting.doc_id = d =>
                     LET pos == x.posting.positions
                     IN  /\ Len(pos) = x.posting.term_frequency
                         /\ \A k \in 1..(Len(pos) - 1) : pos[k] < pos[k + 1]
                         /\ \A k \in DOMAIN pos :
                               /\ 0 <= pos[k] /\ pos[k] < Len(stream)
                               /\ stream[pos[k] + 1] = x.term

\* a posting with two positions in a document whose text has words the
\* tokenizer drops in front of the term
C8_Witness ==
    /\ Built
    /\ \E x \in AllPostings :
          /\ x.posting.term_frequency >= 2
          /\ \E i \in DOMAIN documents :
                /\ indexer.path_to_id[documents[i].url] = x.posting.doc_id
                /\ Len(split(documents[i].html.text)) >
                      Len(TokenStream(documents[i].html.text))

\* C10: for a document with a non-empty AnchorInbox A the indexed token
\* stream is the body-only token stream followed by two copies of the token
\* stream of the space-joined strings of A: each token of that stream is
\* posted at its position, the document's length is the stream's, and each
\* term's frequency is its body count plus twice its count in the anchors.
C10_AnchorsAppendedTwice ==
    Built =>
      \A i \in DOMAIN documents :
         LET url == documents[i].url
             A == DictGet(anchor_texts_map, url, <<>>)
             d == indexer.path_to_id[url]
             body == TokenStream(documents[i].html.text)
             anchor == TokenStream(join(<<" ">>, A))
             stream == body \o anchor \o anchor
         IN  A # <<>> =>
               /\ indexer.document_list[d].length = Len(stream)
               /\ \A k \in DOMAIN stream :
                     \E p \in PostingsOf(stream[k], d) : (k - 1) \in Range(p.positions)
               /\ \A x \in AllPostings :
                     x.posting.doc_id = d =>
                       /\ x.posting.term_frequency =
                             CountIn(body, x.term) + 2 * CountIn(anchor, x.term)
                       /\ \A q \in Range(x.posting.positions) :
                             q >= Len(body) => x.term \in Range(anchor)

\* a document with body tokens whose inbox holds two strings, one of them
\* with a stop word and one with a capital and punctuation
C10_Witness ==
    /\ Built
    /\ \E i \in DOMAIN documents :
          LET A == DictGet(anchor_texts_map, documents[i].url, <<>>)
          IN  /\ Len(A) >= 2
              /\ TokenStream(documents[i].html.text) # <<>>
              /\ Len(TokenStream(join(<<" ">>, A))) >= 2
              /\ Len(split(join(<<" ">>, A))) > Len(TokenStream(join(<<" ">>, A)))

---------------------------------------------------------------------------
(* Claims on document ids (SpecIds) *)

IdMapsInverse ==
    /\ DOMAIN indexer.id_to_path = indexer.used_ids
    /\ Range(indexer.path_to_id) = indexer.used_ids
    /\ \A p \in DOMAIN indexer.path_to_id :
          indexer.id_to_path[indexer.path_to_id[p]] = p
    /\ \A p, q \in DOMAIN indexer.path_to_id :
          p # q => indexer.path_to_id[p] # indexer.path_to_id[q]
    /\ last_path # <<>> => last_doc_id = indexer.path_to_id[last_path]

IdsKept ==
    \A p \in DOMAIN indexer.path_to_id :
       /\ p \in DOMAIN indexer'.path_to_id
       /\ indexer'.path_to_id[p] = indexer.path_to_id[p]

\* C9: after any sequence of _generate_document_id calls path_to_id and
\* id_to_path are inverse bijections, distinct paths have distinct ids,
\* used_ids is the set of assigned ids, and a call for a path that has an id
\* returns that id (no call changes the id of a path).
C9_IdsBijective == []IdMapsInverse /\ [][IdsKept]_vars

\* four paths with the stem "a" have ids, one of them from the counter
\* fallback after a first fallback id was taken
C9_Witness ==
    /\ {U_a, U_da, U_ea, U_fa} \subseteq DOMAIN indexer.path_to_id
    /\ (PathStem(U_a) \o Format04d(2)) \in indexer.used_ids
    /\ \E r \in RandomNumbers : (PathStem(U_a) \o Decimal(r)) \in indexer.used_ids

---------------------------------------------------------------------------
(* WebSpider: URL normalisation and the parse worker *)

RECURSIVE SplitOnFrom(_, _, _, _)
SplitOnFrom(s, ch, cur, acc) ==
    IF s = <<>> THEN Append(acc, cur)
    ELSE IF Head(s) = ch
         THEN SplitOnFrom(Tail(s), ch, <<>>, Append(acc, cur))
         ELSE SplitOnFrom(Tail(s), ch, Append(cur, Head(s)), acc)

\* str.split(ch)
SplitOn(s, ch) == SplitOnFrom(s, ch, <<>>, <<>>)

\* urlparse finds a scheme: a letter, then letters, digits, "+", "-", ".",
\* up to the first ":"
HasScheme(url) ==
    \E i \in DOMAIN url :
       /\ url[i] = ":" /\ i > 1
       /\ \A j \in 1..(i - 1) : url[j] # ":"
       /\ url[1] \in Range(ascii_lowercase) \cup Range(ascii_uppercase)
       /\ \A j \in 1..(i - 1) :
             url[j] \in Range(ascii_lowercase) \cup Range(ascii_uppercase)
                          \cup Range(digits) \cup {"+", "-", "."}

RECURSIVE ResolveSegments(_, _)
\* the loop of urljoin that removes "." and ".." segments
ResolveSegments(segments, resolved_path) ==
    IF segments = <<>> THEN resolved_path
    ELSE LET seg == Head(segments)
         IN  IF seg = <<".", ".">>
             THEN ResolveSegments(Tail(segments),
                     IF resolved_path = <<>> THEN <<>>
                     ELSE SubSeq(resolved_path, 1, Len(resolved_path) - 1))
             ELSE IF seg = <<".">>
                  THEN ResolveSegments(Tail(segments), resolved_path)
                  ELSE ResolveSegments(Tail(segments), Append(resolved_path, seg))

\* segments[1:-1] = filter(None, segments[1:-1])
DropEmptyInner(segments) ==
    IF Len(segments) <= 2 THEN segments
    ELSE <<segments[1]>>
            \o SelectSeq(SubSeq(segments, 2, Len(segments) - 1), LAMBDA seg : seg # <<>>)
            \o <<segments[Len(segments)]>>

\* urllib.parse.urljoin(base, url) for a base that is an entry name (no
\* scheme, no host) and a url without query or parameters
urljoin(base, url) ==
    IF base = <<>> THEN url
    ELSE IF url = <<>> THEN base
    ELSE IF HasScheme(url) \/ startswith(url, <<"/", "/">>) THEN url
    ELSE LET bparts == SplitOn(base, "/")
             base_parts == IF bparts[Len(bparts)] # <<>>
                           THEN SubSeq(bparts, 1, Len(bparts) - 1) ELSE bparts
             segments == IF Head(url) = "/"
                         THEN SplitOn(url, "/")
                         ELSE DropEmptyInner(base_parts \o SplitOn(url, "/"))
             resolved == ResolveSegments(segments, <<>>)
                            \o IF segments[Len(segments)] \in {<<".">>, <<".", ".">>}
                               THEN << <<>> >> ELSE <<>>
             path == join(<<"/">>, resolved)
         IN  IF path = <<>> THEN <<"/">> ELSE path

\* the escapes urllib.parse.unquote decodes in the model's URLs
PercentCodes ==
    (<<"2", "0">> :> " ") @@ (<<"2", "F">> :> "/") @@ (<<"2", "f">> :> "/")
        @@ (<<"6", "2">> :> "b")

RECURSIVE unquote(_)
\* urllib.parse.unquote
unquote(s) ==
    IF s = <<>> THEN <<>>
    ELSE IF Head(s) = "%" /\ Len(s) >= 3 /\ SubSeq(s, 2, 3) \in DOMAIN PercentCodes
         THEN <<PercentCodes[SubSeq(s, 2, 3)]>> \o unquote(SubSeq(s, 4, Len(s)))
         ELSE <<Head(s)>> \o unquote(Tail(s))

\* the schemes _normalize_url_worker rejects
RejectedSchemes ==
    {<<"m", "a", "i", "l", "t", "o", ":">>,
     <<"j", "a", "v", "a", "s", "c", "r", "i", "p", "t", ":">>,
     <<"t", "e", "l", ":">>, <<"f", "t", "p", ":">>}

\* _normalize_url_worker(url, base_url); None is the empty string (both are
\* false in the test the callers make)
normalize_url_worker(url, base_url) ==
    IF url = <<>> THEN <<>>
    ELSE LET u1 == SplitOn(url, "#")[1]
         IN  IF \E prefix \in RejectedSchemes : startswith(u1, prefix) THEN <<>>
             ELSE LET u2 == IF base_url # <<>> THEN urljoin(base_url, u1) ELSE u1
                  IN  lstrip(unquote(u2), {"/"})

\* _is_html_file_worker(url)
is_html_file_worker(url) ==
    LET lower_url == lower(url)
    IN  \/ endswith(lower_url, <<".", "h", "t", "m", "l">>)
        \/ endswith(lower_url, <<".", "h", "t", "m">>)
        \/ endswith(lower_url, <<"/">>)

RECURSIVE LinksFrom(_, _, _)
\* the loop "for tag in soup.find_all('a', href=True)"
LinksFrom(tags, current_url, i) ==
    IF i > Len(tags) THEN <<>>
    ELSE LET normalized_url == normalize_url_worker(tags[i].url, current_url)
             rest == LinksFrom(tags, current_url, i + 1)
         IN  IF tags[i].name = "a" /\ normalized_url # <<>>
                /\ is_html_file_worker(normalized_url)
             THEN <<[url |-> normalized_url, anchor_text |-> tags[i].text]>> \o rest
             ELSE rest

\* _parse_html_worker((url, html_content, current_url)): the links of the
\* result; a parser exception is caught and gives no links
parse_html_worker(url, html_content, current_url) ==
    IF html_content.parses
    THEN LinksFrom(html_content.tags, current_url, 1)
    ELSE <<>>

---------------------------------------------------------------------------
(* WebSpider._crawl_breadth_first_chunked: the coordinator *)

\* batch_size = max_workers * 4
BatchFactor == 4

\* lines 517-518: the entries loaded into html_cache
IsCachedName(f) ==
    /\ \/ endswith(f, <<".", "h", "t", "m", "l">>)
       \/ endswith(f, <<".", "h", "t", "m">>)
    /\ ~startswith(f, <<"_", "_", "M", "A", "C", "O", "S", "X">>)

\* a variant that does not add the seed to discovered_urls
EnqueueSeedOnly(sp) ==
    [sp EXCEPT !.url_queue = Append(@, sp.start_file)]

\* lines 536-537
EnqueueSeed(sp) ==
    [sp EXCEPT !.url_queue = Append(@, sp.start_file),
               !.discovered_urls = @ \cup {sp.start_file}]

\* line 542: the condition of the outer while loop
CrawlContinues(sp, mp) ==
    /\ sp.url_queue # <<>>
    /\ (mp = NoLimit \/ sp.pages_crawled < mp)

RECURSIVE CollectBatchUnbounded(_, _, _, _, _)
\* a variant of the inner loop without the test of max_pages
CollectBatchUnbounded(sp, b, cache, mp, batch_size) ==
    IF sp.url_queue = <<>> \/ Len(b) >= batch_size
    THEN [spider |-> sp, batch |-> b]
    ELSE LET url == Head(sp.url_queue)
             sp1 == [sp EXCEPT !.url_queue = Tail(@)]
         IN  IF url \in sp.visited_urls
             THEN CollectBatchUnbounded(sp1, b, cache, mp, batch_size)
             ELSE IF url \notin DOMAIN cache
             THEN CollectBatchUnbounded(sp1, b, cache, mp, batch_size)
             ELSE CollectBatchUnbounded([sp1 EXCEPT !.visited_urls = @ \cup {url}],
                                        Append(b, url), cache, mp, batch_size)

RECURSIVE CollectBatch(_, _, _, _, _)
\* lines 544-559: the inner while loop that pops the batch
CollectBatch(sp, b, cache, mp, batch_size) ==
    IF sp.url_queue = <<>> \/ Len(b) >= batch_size
    THEN [spider |-> sp, batch |-> b]
    ELSE IF mp # NoLimit /\ sp.pages_crawled + Len(b) >= mp
    THEN [spider |-> sp, batch |-> b]
    ELSE LET url == Head(sp.url_queue)
             sp1 == [sp EXCEPT !.url_queue = Tail(@)]
         IN  IF url \in sp.visited_urls
             THEN CollectBatch(sp1, b, cache, mp, batch_size)
             ELSE IF url \notin DOMAIN cache
             THEN CollectBatch(sp1, b, cache, mp, batch_size)
             ELSE CollectBatch([sp1 EXCEPT !.visited_urls = @ \cup {url}],
                               Append(b, url), cache, mp, batch_size)

\* self.html_documents[result_url] = html_content
PutDocument(items, url, html_content) ==
    IF \E i \in DOMAIN items : items[i].url = url
    THEN [i \in DOMAIN items |->
             IF items[i].url = url THEN [url |-> url, html |-> html_content] ELSE items[i]]
    ELSE Append(items, [url |-> url, html |-> html_content])

\* a variant that appends every link target to the queue, discovered or not
ProcessLinkAlways(sp, link) ==
    LET linked_url == link.url
        a1 == IF linked_url \notin DOMAIN sp.anchor_texts
              THEN DictSet(sp.anchor_texts, linked_url, <<>>)
              ELSE sp.anchor_texts
        a2 == IF link.anchor_text # <<>>
              THEN DictSet(a1, linked_url, Append(a1[linked_url], link.anchor_text))
              ELSE a1
    IN  [sp EXCEPT !.total_links_found = @ + 1,
                   !.anchor_texts = a2,
                   !.discovered_urls = @ \cup {linked_url},
                   !.url_queue = Append(@, linked_url)]

\* a variant that stores the anchor text of a link only when its target
\* was not discovered before
ProcessLinkNewOnly(sp, link) ==
    LET linked_url == link.url
        new == linked_url \notin sp.discovered_urls
        a1 == IF linked_url \notin DOMAIN sp.anchor_texts
              THEN DictSet(sp.anchor_texts, linked_url, <<>>)
              ELSE sp.anchor_texts
        a2 == IF link.anchor_text # <<>> /\ new
              THEN DictSet(a1, linked_url, Append(a1[linked_url], link.anchor_text))
              ELSE a1
    IN  [sp EXCEPT !.total_links_found = @ + 1,
                   !.anchor_texts = a2,
                   !.discovered_urls = IF new THEN @ \cup {linked_url} ELSE @,
                   !.url_queue = IF new THEN Append(@, linked_url) ELSE @]

\* lines 590-603: one link of a result
ProcessLink(sp, link) ==
    LET linked_url == link.url
        a1 == IF linked_url \notin DOMAIN sp.anchor_texts
              THEN DictSet(sp.anchor_texts, linked_url, <<>>)
              ELSE sp.anchor_texts
        a2 == IF link.anchor_text # <<>>
              THEN DictSet(a1, linked_url, Append(a1[linked_url], link.anchor_text))
              ELSE a1
        new == linked_url \notin sp.discovered_urls
    IN  [sp EXCEPT !.total_links_found = @ + 1,
                   !.anchor_texts = a2,
                   !.discovered_urls = IF new THEN @ \cup {linked_url} ELSE @,
                   !.url_queue = IF new THEN Append(@, linked_url) ELSE @]

RECURSIVE ProcessLinks(_, _, _)
\* the loop "for linked_url, anchor_text in links_with_anchors"; the spider
\* after one link is bound as a value before the next link is processed
ProcessLinks(sp, links, i) ==
    IF i > Len(links) THEN sp
    ELSE CHOOSE done \in {ProcessLinks(next, links, i + 1) :
                             next \in {ProcessLink(sp, links[i])}} : TRUE

\* lines 578-605: the coordinator applies the result of one future
ApplyResult(sp, cache, result_url, links_with_anchors) ==
    LET sp1 == [sp EXCEPT
                  !.html_documents = PutDocument(@, result_url, cache[result_url]),
                  !.pages_crawled = @ + 1]
        sp2 == ProcessLinks(sp1, links_with_anchors, 1)
    IN  [sp2 EXCEPT !.url_graph =
            DictSet(@, result_url,
                    [i \in DOMAIN links_with_anchors |-> links_with_anchors[i].url])]

---------------------------------------------------------------------------
(* HtmlIndexer.process_zip_file and build_index *)

\* lines 373-404: the first pass over one .html entry of the archive
ZipFirstPassItem(acc, filename, html_content, draw) ==
    LET original_path == <<".", "/">> \o filename
        ix1 == generate_document_id(acc.ix, original_path, draw)
        doc_id == ix1.path_to_id[original_path]
    IN  IF ~html_content.parses
        THEN [acc EXCEPT !.ix = ix1, !.raised = "ParserError",
                         !.possible = @ /\ DrawPossible(acc.ix, original_path, draw)]
        ELSE
        LET ex == extract_words_with_positions(html_content)
            words == ex.words
            ix2 == [ix1 EXCEPT
                      !.url_list = @ \cup Range(extract_urls_from_html(html_content)),
                      !.document_list =
                          DictSet(@, doc_id,
                                  [doc_id |-> doc_id, url |-> filename,
                                   length |-> Len(words),
                                   unique_words |-> Cardinality(Range(words))]),
                      !.file_words = DictSet(@, doc_id, Range(words))]
        IN  [ix |-> ix2,
             order |-> IF doc_id \in Range(acc.order)
                       THEN acc.order ELSE Append(acc.order, doc_id),
             document_word_counts |->
                 DictSet(acc.document_word_counts, doc_id, Counter(words)),
             document_words_with_positions |->
                 DictSet(acc.document_words_with_positions, doc_id, ex),
             raised |-> acc.raised,
             possible |-> acc.possible /\ DrawPossible(acc.ix, original_path, draw)]

RECURSIVE ZipFirstPass(_, _, _, _, _)
\* "for file_info in zip_ref.infolist()"
ZipFirstPass(acc, names, content, draws, i) ==
    IF i > Len(names) \/ acc.raised # "none"
    THEN acc
    ELSE IF endswith(names[i], <<".", "h", "t", "m", "l">>)
         THEN ZipFirstPass(ZipFirstPassItem(acc, names[i], content[names[i]], draws[i]),
                           names, content, draws, i + 1)
         ELSE ZipFirstPass(acc, names, content, draws, i + 1)

\* HtmlIndexer.process_zip_file on an archive (exists, valid, names, content)
process_zip_file(ix, exists, valid, names, content, draws) ==
    IF ~exists
    THEN [ix |-> ix, raised |-> "FileNotFoundError", possible |-> TRUE]
    ELSE IF ~valid
    THEN [ix |-> ix, raised |-> "BadZipFile", possible |-> TRUE]
    ELSE LET p1 == ZipFirstPass([ix |-> ix, order |-> <<>>,
                                 document_word_counts |-> EmptyDict,
                                 document_words_with_positions |-> EmptyDict,
                                 raised |-> "none", possible |-> TRUE],
                                names, content, draws, 1)
         IN  IF p1.raised # "none"
             THEN [ix |-> p1.ix, raised |-> p1.raised, possible |-> p1.possible]
             ELSE [ix |-> SecondPass(p1), raised |-> "none", possible |-> p1.possible]

\* a variant that processes the archive at every call
build_index_again(ix, exists, valid, names, content, draws) ==
    process_zip_file(ix, exists, valid, names, content, draws)

\* HtmlIndexer.build_index
build_index(ix, exists, valid, names, content, draws) ==
    IF ~ix.is_indexed
    THEN process_zip_file(ix, exists, valid, names, content, draws)
    ELSE [ix |-> ix, raised |-> "none", possible |-> TRUE]

---------------------------------------------------------------------------
(* Spec: the pipeline. Either the archive is crawled from the seed and the *)
(* crawled documents are indexed (main_part3.py, app_web.py), or the       *)
(* archive is indexed directly by build_index (console_app.py, gui_app.py) *)

U_bad == <<"b", "a", "d", ".", "h", "t", "m", "l">>
U_zz == <<"z", "z", ".", "h", "t", "m", "l">>
U_mac == <<"_", "_", "M", "A", "C", "O", "S", "X", "/", "a", ".", "h", "t", "m", "l">>
U_txt == <<"n", "o", "t", "e", "s", ".", "t", "x", "t">>
U_A_HTML == <<"A", ".", "H", "T", "M", "L">>
H_slash_a == <<"/", "a", ".", "h", "t", "m", "l">>
H_top == <<"#", "t", "o", "p">>
H_mailto == <<"m", "a", "i", "l", "t", "o", ":", "x", "@", "y">>
H_slash_da == <<"/", "d", "/", "a", ".", "h", "t", "m", "l">>
H_up_b == <<".", ".", "/", "b", ".", "h", "t", "m", "l">>
SP == <<" ">>

\* the entries of the model's archives
ArchivePages ==
    (U_a :> Html(TRUE, T_cat_dog \o SP \o A_beta_gamma \o SP \o W_bird,
                 <<Tag("a", U_b, A_beta_gamma), Tag("a", U_c, W_bird),
                   Tag("a", H_top, <<>>), Tag("a", H_mailto, W_cat),
                   Tag("img", U_c, <<>>)>>))
    @@ (U_b :> Html(TRUE, T_dog_bird \o SP \o A_Cat \o SP \o A_the_dog,
                    <<Tag("a", U_da, A_Cat), Tag("a", U_a, A_the_dog)>>))
    @@ (U_c :> Html(TRUE, W_bird \o SP \o A_beta_gamma \o SP \o W_bird \o SP \o W_dog,
                    <<Tag("a", H_slash_da, A_beta_gamma), Tag("a", U_zz, W_bird),
                      Tag("a", U_bad, W_dog)>>))
    @@ (U_da :> Html(TRUE, T_mixed \o SP \o W_cat \o SP \o W_dog,
                     <<Tag("a", H_up_b, W_cat), Tag("a", U_a, W_dog)>>))
    @@ (U_bad :> Html(FALSE, <<>>, <<>>))
    @@ (U_mac :> Html(TRUE, T_cat_dog, <<>>))
    @@ (U_txt :> Html(TRUE, T_cat_dog, <<>>))
    @@ (U_A_HTML :> Html(TRUE, T_cat_dog, <<Tag("a", U_b, W_bird)>>))

\* namelist() of the model's archives
ArchiveNames ==
    {<<U_a, U_b, U_c, U_da, U_bad, U_mac, U_txt>>,
     <<U_b, U_a, U_da, U_c>>,
     <<U_a, U_b>>,
     <<U_A_HTML, U_b>>}

\* the entries of the archive whose seed links to more documents than one
\* batch holds
U_s == <<"s", ".", "h", "t", "m", "l">>
U_d == <<"d", ".", "h", "t", "m", "l">>
U_e == <<"e", ".", "h", "t", "m", "l">>
U_x == <<"x", ".", "h", "t", "m", "l">>
U_w == <<"w", ".", "h", "t", "m", "l">>
U_z == <<"z", ".", "h", "t", "m", "l">>
U_k == <<"k", ".", "h", "t", "m", "l">>
U_m == <<"m", ".", "h", "t", "m", "l">>
U_n == <<"n", ".", "h", "t", "m", "l">>

\* s links to k, m, n, d and e; k links to x and back to s; m links to
\* itself; n links out of the archive; e links to w; x links to z; z links
\* to k
WidePages ==
    (U_s :> Html(TRUE, W_cat,
                 <<Tag("a", U_k, W_cat), Tag("a", U_m, W_dog), Tag("a", U_n, W_cat),
                   Tag("a", U_d, <<>>), Tag("a", U_e, W_bird)>>))
    @@ (U_k :> Html(TRUE, W_cat, <<Tag("a", U_x, W_dog), Tag("a", U_s, W_cat)>>))
    @@ (U_m :> Html(TRUE, W_cat, <<Tag("a", U_m, W_dog)>>))
    @@ (U_n :> Html(TRUE, W_cat, <<Tag("a", U_zz, W_bird)>>))
    @@ (U_d :> Html(TRUE, W_cat, <<>>))
    @@ (U_e :> Html(TRUE, W_cat, <<Tag("a", U_w, W_bird)>>))
    @@ (U_x :> Html(TRUE, W_cat, <<Tag("a", U_z, W_cat), Tag("a", U_w, W_dog)>>))
    @@ (U_w :> Html(TRUE, W_cat, <<>>))
    @@ (U_z :> Html(TRUE, W_cat, <<Tag("a", U_k, W_bird)>>))

WideNames == <<U_s, U_k, U_m, U_n, U_d, U_e, U_x, U_w, U_z>>

CrawlPages == WidePages @@ ArchivePages

\* lines 119-150: what the worker returns for each entry of the model's
\* archives, submitted under its own name
WorkerResults ==
    [u \in DOMAIN CrawlPages |-> parse_html_worker(u, CrawlPages[u], u)]

\* lines 576-577: result_url, links_with_anchors = future.result() for the
\* task submitted at line 563 with (url, html_cache[url], url)
FutureResult(cache, url) ==
    IF url \in DOMAIN WorkerResults /\ cache[url] = CrawlPages[url]
    THEN WorkerResults[url]
    ELSE parse_html_worker(url, cache[url], url)

\* the seeds: entries, a name that is in no archive, an entry with an
\* upper-case name, and an entry written with a leading slash
Seeds == {U_a, U_b, U_zz, U_A_HTML, H_slash_a}

\* the largest max_pages of the model
MaxPagesLimit == 2

\* the largest worker pool of the model
MaxWorkers == 2

Init ==
    /\ zip_exists \in BOOLEAN
    /\ zip_valid \in BOOLEAN
    /\ zip_exists \/ ~zip_valid
    /\ zip_names \in ArchiveNames
    /\ zip_content = [f \in Range(zip_names) |-> ArchivePages[f]]
    /\ \E start \in Seeds : spider = NewSpider(start)
    /\ max_pages \in {NoLimit} \cup 0..MaxPagesLimit
    /\ max_workers \in 1..MaxWorkers
    /\ html_cache = EmptyDict /\ batch = <<>> /\ futures = {}
    /\ BuildIdle /\ QueryNew /\ IdsIdle
    /\ indexer = NewIndexer
    /\ pc \in {"crawl", "zip"}
    /\ raised = "none"

\* lines 511-537: the cache is loaded and the seed is enqueued; an archive
\* that cannot be opened is reported on stdout and the crawl returns
CrawlLoadCache ==
    /\ pc = "crawl"
    /\ IF zip_exists /\ zip_valid
       THEN /\ html_cache' = [f \in {g \in Range(zip_names) : IsCachedName(g)}
                                 |-> zip_content[f]]
            /\ spider' = EnqueueSeed(spider)
            /\ pc' = "loop"
       ELSE /\ pc' = "crawled"
            /\ UNCHANGED <<html_cache, spider>>
    /\ UNCHANGED <<archive_vars, max_pages, max_workers, batch, futures, build_vars,
                   indexer, query_vars, id_vars, raised>>

\* lines 542-571: the loop test, the batch is popped and submitted
CrawlNextBatch ==
    /\ pc = "loop"
    /\ IF CrawlContinues(spider, max_pages)
       THEN LET r == CollectBatch(spider, <<>>, html_cache, max_pages,
                                  max_workers * BatchFactor)
            IN  /\ spider' = r.spider
                /\ batch' = r.batch
                /\ futures' = DOMAIN r.batch
                /\ pc' = IF r.batch = <<>> THEN "crawled" ELSE "collect"
       ELSE /\ pc' = "crawled"
            /\ UNCHANGED <<spider, batch, futures>>
    /\ UNCHANGED <<archive_vars, max_pages, max_workers, html_cache, build_vars,
                   indexer, query_vars, id_vars, raised>>

\* lines 574-608: as_completed yields the future of any task of the batch
\* that is still out, and the coordinator applies its result
CrawlCollectResult ==
    /\ pc = "collect"
    /\ \E i \in futures :
          /\ spider' = ApplyResult(spider, html_cache, batch[i],
                                   FutureResult(html_cache, batch[i]))
          /\ futures' = futures \ {i}
          /\ pc' = IF futures' = {} THEN "loop" ELSE "collect"
    /\ UNCHANGED <<archive_vars, max_pages, max_workers, html_cache, batch,
                   build_vars, indexer, query_vars, id_vars, raised>>

\* main_part3.py lines 60-70: the crawled documents and the anchor texts
\* are handed to a new HtmlIndexer
IndexCrawledDocuments ==
    /\ pc = "crawled"
    /\ documents' = spider.html_documents
    /\ anchor_texts_map' = spider.anchor_texts
    /\ \E draws \in [DOMAIN spider.html_documents -> Draws] :
          LET res == build_index_from_crawled_documents(
                        NewIndexer, spider.html_documents, spider.anchor_texts, draws)
          IN  /\ res.possible
              /\ indexer' = res.ix
              /\ raised' = res.raised
              /\ pc' = IF res.raised = "none" THEN "built" ELSE "failed"
    /\ UNCHANGED <<archive_vars, crawl_vars, query_vars, id_vars>>

\* console_app.py line 39: indexer.build_index() on HtmlIndexer(zip_path)
BuildIndex ==
    /\ pc = "zip"
    /\ \E draws \in [{i \in DOMAIN zip_names :
                          endswith(zip_names[i], <<".", "h", "t", "m", "l">>)} -> Draws] :
          LET res == build_index(indexer, zip_exists, zip_valid, zip_names,
                                 zip_content, draws)
          IN  /\ res.possible
              /\ indexer' = res.ix
              /\ raised' = res.raised
              /\ pc' = IF res.raised = "none" THEN "built" ELSE "failed"
    /\ UNCHANGED <<archive_vars, crawl_vars, build_vars, query_vars, id_vars>>

Next ==
    \/ CrawlLoadCache
    \/ CrawlNextBatch
    \/ CrawlCollectResult
    \/ IndexCrawledDocuments
    \/ BuildIndex

Spec == Init /\ [][Next]_vars

---------------------------------------------------------------------------
(* Claims on the pipeline *)

Crawled == pc = "crawled"
ArchiveReadable == zip_exists /\ zip_valid

RECURSIVE ApplyInBatchOrder(_, _, _, _)
\* the results of batch b applied in the order the URLs were popped
ApplyInBatchOrder(sp, cache, b, i) ==
    IF i > Len(b)
    THEN sp
    ELSE ApplyInBatchOrder(ApplyResult(sp, cache, b[i], FutureResult(cache, b[i])),
                           cache, b, i + 1)

RECURSIVE CrawlInBatchOrder(_, _, _, _)
\* the crawl in which every batch is applied in the order it was popped
CrawlInBatchOrder(sp, cache, mp, batch_size) ==
    IF ~CrawlContinues(sp, mp)
    THEN sp
    ELSE LET r == CollectBatch(sp, <<>>, cache, mp, batch_size)
         IN  IF r.batch = <<>>
             THEN r.spider
             ELSE CrawlInBatchOrder(ApplyInBatchOrder(r.spider, cache, r.batch, 1),
                                    cache, mp, batch_size)

\* C2: within a batch the results are applied in the order the URLs were
\* popped, so that when the crawl of a readable archive has returned, every
\* target's anchor inbox is the one of the crawl that applies each batch in
\* popped order, whatever the order in which the workers completed.
C2_InboxOrderDeterministic ==
    (Crawled /\ ArchiveReadable) =>
        spider.anchor_texts =
            CrawlInBatchOrder(EnqueueSeed(NewSpider(spider.start_file)), html_cache,
                              max_pages, max_workers * BatchFactor).anchor_texts

\* C3: a crawl whose seed is not an entry of the archive does not return
\* normally with zero crawled documents: it ends with SeedNotFound raised.
C3_MissingSeedAborts ==
    (Crawled /\ ArchiveReadable /\ spider.start_file \notin Range(zip_names)) =>
        raised = "SeedNotFound"

\* C4: no build path returns normally from a missing or corrupt archive and
\* leaves an index marked as built.
C4_BadArchiveFails ==
    ~ArchiveReadable => ~(pc = "built" /\ raised = "none" /\ indexer.is_indexed)

\* C5: a document whose HTML parsing fails during the crawl is not in the
\* crawled-document map when the crawl has returned.
C5_ParseFailureOmitted ==
    Crawled => \A i \in DOMAIN spider.html_documents :
                   spider.html_documents[i].html.parses

---------------------------------------------------------------------------
(* QueryProcessor.parse_query *)

\* the characters \w matches
WordChars == Range(ascii_lowercase) \cup Range(ascii_uppercase) \cup Range(digits) \cup {"_"}

\* the last index of the longest run of characters of chars that starts at
\* index i of s; i - 1 when s[i] is not in chars
RunEnd(s, i, chars) ==
    LET stops == {j \in i..Len(s) : s[j] \notin chars}
    IN  IF stops = {} THEN Len(s)
        ELSE (CHOOSE j \in stops : \A k \in stops : j <= k) - 1

\* min(S), or 0 for the empty set
Least(S) == IF S = {} THEN 0 ELSE CHOOSE i \in S : \A j \in S : i <= j

\* A match of \b(\w+)\s+kw\s+(\w+) (IGNORECASE) that starts at index i of q,
\* given the ends of its runs: e1 of the first word, s1 of the whitespace
\* before kw, s2 of the whitespace behind kw, e2 of the second word.
MatchRecord(q, i, kw, e1, s1, s2, e2) ==
    [found |-> /\ i \in DOMAIN q
               /\ q[i] \in WordChars
               /\ (i = 1 \/ q[i - 1] \notin WordChars)
               /\ s1 > e1
               /\ s1 + Len(kw) <= Len(q)
               /\ lower(SubSeq(q, s1 + 1, s1 + Len(kw))) = kw
               /\ s2 > s1 + Len(kw)
               /\ e2 > s2,
     start |-> i, end |-> e2,
     group1 |-> SubSeq(q, i, e1), group2 |-> SubSeq(q, s2 + 1, e2)]

\* Each greedy run is the whole run: a shorter one is followed by a character
\* of the same class, which the rest of the pattern rejects.
MatchSecondWord(q, i, kw, e1, s1, s2) ==
    MatchRecord(q, i, kw, e1, s1, s2, RunEnd(q, s2 + 1, WordChars))

MatchKeyword(q, i, kw, e1, s1) ==
    MatchSecondWord(q, i, kw, e1, s1, RunEnd(q, s1 + Len(kw) + 1, Whitespace))

MatchFirstWord(q, i, kw, e1) ==
    MatchKeyword(q, i, kw, e1, RunEnd(q, e1 + 1, Whitespace))

\* the match of the pattern of kw at index i of q, found or not
MatchAt(q, i, kw) == MatchFirstWord(q, i, kw, RunEnd(q, i, WordChars))

\* pattern.search(q) from index from on: the start of the leftmost match, or 0
pattern_search(q, kw, from) ==
    Least({i \in from..Len(q) : MatchAt(q, i, kw).found})

RECURSIVE finditer(_, _, _)

\* the matches from the one that starts at i on (none when i = 0)
MatchesFrom(q, kw, i) ==
    IF i = 0 THEN <<>>
    ELSE <<MatchAt(q, i, kw)>> \o finditer(q, kw, MatchAt(q, i, kw).end + 1)

\* pattern.finditer(q): the successive non-overlapping matches
finditer(q, kw, from) == MatchesFrom(q, kw, pattern_search(q, kw, from))

RECURSIVE replace(_, _, _)
\* str.replace(old, new) for a non-empty old
replace(s, old, new) ==
    IF Len(s) < Len(old) THEN s
    ELSE IF SubSeq(s, 1, Len(old)) = old
         THEN new \o replace(SubSeq(s, Len(old) + 1, Len(s)), old, new)
         ELSE <<Head(s)>> \o replace(Tail(s), old, new)

RECURSIVE RemoveMatches(_, _, _, _)
\* "for match in pattern.finditer(query): remaining = remaining.replace(match.group(0), '')"
RemoveMatches(remaining, query, matches, k) ==
    IF k > Len(matches) THEN remaining
    ELSE RemoveMatches(replace(remaining, SubSeq(query, matches[k].start, matches[k].end), <<>>),
                       query, matches, k + 1)

RECURSIVE Unique(_)
\* list(set(items)): each item once. The order Python gives the list is
\* the set's; the evaluators take a maximum or a sum over the terms, which
\* no order changes, so the model keeps the order of first occurrence.
Unique(items) ==
    IF items = <<>> THEN <<>>
    ELSE LET r == Unique(SubSeq(items, 1, Len(items) - 1))
         IN  IF items[Len(items)] \in Range(r) THEN r ELSE Append(r, items[Len(items)])

\* lines 79-85 and 90-96: the terms of an OR or AND query whose first match
\* is m
TermsOfMatch(query, kw, m) ==
    Unique(<<lower(m.group1), lower(m.group2)>>
           \o SelectSeq(split(RemoveMatches(lower(query), query, finditer(query, kw, 1), 1)),
                        LAMBDA t : t # kw))

BooleanTerms(query, kw) ==
    TermsOfMatch(query, kw, MatchAt(query, pattern_search(query, kw, 1), kw))

\* phrase_pattern.search(query): the index of the opening quote of the
\* leftmost match of "([^"]+)", or 0
PhraseStart(query) ==
    Least({i \in 1..(Len(query) - 2) :
              /\ query[i] = "\""
              /\ query[i + 1] # "\""
              /\ \E j \in (i + 2)..Len(query) : query[j] = "\""})

\* phrase_match.group(1) for the match that starts at index i
PhraseGroup(query, i) ==
    LET j == CHOOSE j \in (i + 2)..Len(query) :
                 /\ query[j] = "\""
                 /\ \A k \in (i + 1)..(j - 1) : query[k] # "\""
    IN  SubSeq(query, i + 1, j - 1)

KW_or == <<"o", "r">>
KW_and == <<"a", "n", "d">>
KW_but == <<"b", "u", "t">>

Parsed(query_type, terms, include, exclude) ==
    [query_type |-> query_type, terms |-> terms, include |-> include, exclude |-> exclude]

\* lines 101-103
DifferenceOfMatch(m) ==
    Parsed("boolean_not", <<lower(m.group1), lower(m.group2)>>,
           lower(m.group1), lower(m.group2))

\* line 106
VectorTerms(words) == [i \in DOMAIN words |-> lower(words[i])]

\* a variant that tries the AND pattern before the OR pattern
ParseStrippedAndFirst(query) ==
    IF PhraseStart(query) # 0
    THEN Parsed("phrase", split(lower(PhraseGroup(query, PhraseStart(query)))), <<>>, <<>>)
    ELSE IF pattern_search(query, KW_and, 1) # 0
    THEN Parsed("boolean_and", BooleanTerms(query, KW_and), <<>>, <<>>)
    ELSE IF pattern_search(query, KW_or, 1) # 0
    THEN Parsed("boolean_or", BooleanTerms(query, KW_or), <<>>, <<>>)
    ELSE IF pattern_search(query, KW_but, 1) # 0
    THEN DifferenceOfMatch(MatchAt(query, pattern_search(query, KW_but, 1), KW_but))
    ELSE Parsed("vector", VectorTerms(split(query)), <<>>, <<>>)

\* lines 69-107, on the stripped query
ParseStripped(query) ==
    IF PhraseStart(query) # 0
    THEN Parsed("phrase", split(lower(PhraseGroup(query, PhraseStart(query)))), <<>>, <<>>)
    ELSE IF pattern_search(query, KW_or, 1) # 0
    THEN Parsed("boolean_or", BooleanTerms(query, KW_or), <<>>, <<>>)
    ELSE IF pattern_search(query, KW_and, 1) # 0
    THEN Parsed("boolean_and", BooleanTerms(query, KW_and), <<>>, <<>>)
    ELSE IF pattern_search(query, KW_but, 1) # 0
    THEN DifferenceOfMatch(MatchAt(query, pattern_search(query, KW_but, 1), KW_but))
    ELSE Parsed("vector", VectorTerms(split(query)), <<>>, <<>>)

\* QueryProcessor.parse_query
parse_query(query) == ParseStripped(strip(query, Whitespace))

---------------------------------------------------------------------------
(* QueryProcessor: the five evaluators *)

\* HtmlIndexer.get_inverted_index_entry(word) is not None
HasEntry(ix, word) == lower(word) \in DOMAIN ix.inverted_index

\* HtmlIndexer.get_inverted_index_entry(word)
get_inverted_index_entry(ix, word) == ix.inverted_index[lower(word)]

\* set(p.doc_id for p in entry.postings)
PostingDocs(entry) == {entry.postings[i].doc_id : i \in DOMAIN entry.postings}

\* {p.doc_id: p for p in entry.postings}
postings_dict(entry) ==
    [d \in PostingDocs(entry) |->
        entry.postings[CHOOSE i \in DOMAIN entry.postings :
                          /\ entry.postings[i].doc_id = d
                          /\ \A j \in DOMAIN entry.postings :
                                entry.postings[j].doc_id = d => j <= i]]

\* "for doc_id in docs" on a set: the documents in the order the set yields
\* them, which is the order of iter, an arrangement of all document ids
Iterate(docs, iter) == SelectSeq(iter, LAMBDA d : d \in docs)

RECURSIVE Gcd(_, _)
Gcd(a, b) == IF b = 0 THEN a ELSE Gcd(b, a % b)

\* a score in lowest terms: one record for each float value
Reduce(f) ==
    IF f.n = 0 THEN ScoreZero
    ELSE [n |-> f.n \div Gcd(f.n, f.d), d |-> f.d \div Gcd(f.n, f.d)]

ScoreAdd(a, b) == Reduce([n |-> a.n * b.d + b.n * a.d, d |-> a.d * b.d])

RECURSIVE ScoreSum(_)
\* sum(...) of a list of scores
ScoreSum(scores) ==
    IF scores = <<>> THEN ScoreZero ELSE ScoreAdd(Head(scores), ScoreSum(Tail(scores)))

RECURSIVE ScoreMax(_)
\* max over a non-empty list of scores, starting from 0.0
ScoreMax(scores) ==
    IF scores = <<>> THEN ScoreZero
    ELSE LET m == ScoreMax(SubSeq(scores, 1, Len(scores) - 1))
         IN  IF ScoreLess(m, scores[Len(scores)]) THEN Reduce(scores[Len(scores)]) ELSE m

QueryResult(doc_id, score) == [doc_id |-> doc_id, score |-> score]

\* sorted(results, key=lambda x: x.score, reverse=True): a stable sort
sorted_by_score(results) ==
    Permuted(results,
             SortOrder(Enumerated([i \in DOMAIN results |-> results[i].score])))

\* the limit of the heapq branch
TopK == 100

\* a variant that returns the first TopK results as they were collected
top_results_unsorted(results) ==
    IF Len(results) > TopK THEN SubSeq(results, 1, TopK) ELSE results

\* lines 137-140: heapq.nlargest(100, results, key) is
\* sorted(results, key=key, reverse=True)[:100]
top_results(results) ==
    IF Len(results) > TopK
    THEN SubSeq(sorted_by_score(results), 1, TopK)
    ELSE sorted_by_score(results)

\* what an evaluator leaves: the list it returns, self.last_total_count, and
\* its local list of all matches (empty on an early return)
Leaves(results, count, matched) ==
    [results |-> results, last_total_count |-> count, matched |-> matched]

\* an early "return []": the count is left as it was
Outcome(results, count) == Leaves(results, count, <<>>)

\* the end of an evaluator: the count is stored and the list cut to TopK
StoreAndCut(results) == Leaves(top_results(results), Len(results), results)

\* a variant that keeps the documents of exactly one term
all_docs_of_one(ix, known) ==
    {d \in UNION {PostingDocs(get_inverted_index_entry(ix, known[i])) : i \in DOMAIN known} :
        Cardinality({i \in DOMAIN known :
                        d \in PostingDocs(get_inverted_index_entry(ix, known[i]))}) = 1}

\* lines 122-126: all_docs after the loop over the terms that have an entry
all_docs_of(ix, known) ==
    UNION {PostingDocs(get_inverted_index_entry(ix, known[i])) : i \in DOMAIN known}

\* QueryProcessor.boolean_or_search
boolean_or_search(ix, terms, iter, count) ==
    LET known == SelectSeq(terms, LAMBDA t : HasEntry(ix, t))
        all_docs == all_docs_of(ix, known)
        with(d) == SelectSeq(known,
                       LAMBDA t : d \in PostingDocs(get_inverted_index_entry(ix, t)))
        doc_scores(d) ==
            ScoreMax([i \in DOMAIN with(d) |->
                         postings_dict(get_inverted_index_entry(ix, with(d)[i]))[d].tf_idf])
        order == Iterate(all_docs, iter)
        results == [i \in DOMAIN order |-> QueryResult(order[i], doc_scores(order[i]))]
    IN  StoreAndCut(Enumerated(results))

\* QueryProcessor.boolean_and_search
boolean_and_search(ix, terms, iter, count) ==
    IF terms = <<>>
    THEN Outcome(<<>>, count)
    ELSE IF \E i \in DOMAIN terms : ~HasEntry(ix, terms[i])
    THEN Outcome(<<>>, count)
    ELSE
    LET common_docs == {d \in PostingDocs(get_inverted_index_entry(ix, terms[1])) :
                           \A i \in DOMAIN terms :
                               d \in PostingDocs(get_inverted_index_entry(ix, terms[i]))}
        score(d) == ScoreSum([i \in DOMAIN terms |->
                        postings_dict(get_inverted_index_entry(ix, terms[i]))[d].tf_idf])
        order == Iterate(common_docs, iter)
        results == [i \in DOMAIN order |-> QueryResult(order[i], score(order[i]))]
    IN  StoreAndCut(Enumerated(results))

\* a variant that excludes nothing
exclude_docs_none(ix, exclude_term) == {}

\* line 208: exclude_docs
exclude_docs_of(ix, exclude_term) ==
    IF HasEntry(ix, exclude_term)
    THEN PostingDocs(get_inverted_index_entry(ix, exclude_term))
    ELSE {}

\* QueryProcessor.boolean_not_search
boolean_not_search(ix, include_term, exclude_term, count) ==
    IF ~HasEntry(ix, include_term)
    THEN Outcome(<<>>, count)
    ELSE
    LET include_entry == get_inverted_index_entry(ix, include_term)
        exclude_docs == exclude_docs_of(ix, exclude_term)
        kept == SelectSeq(include_entry.postings, LAMBDA p : p.doc_id \notin exclude_docs)
        results == [i \in DOMAIN kept |-> QueryResult(kept[i].doc_id, Reduce(kept[i].tf_idf))]
    IN  StoreAndCut(Enumerated(results))

RECURSIVE SumOver(_, _)
\* sum(f[x] for x in keys)
SumOver(f, keys) ==
    IF keys = {} THEN 0
    ELSE LET x == CHOOSE y \in keys : TRUE
         IN  f[x] + SumOver(f, keys \ {x})

\* a variant whose document norm is taken over every term of the document
vector_space_search_full_norm(ix, terms, iter, count) ==
    IF terms = <<>>
    THEN Outcome(<<>>, count)
    ELSE
    LET query_vector == Counter(terms)
        query_length_squared ==
            SumOver([t \in DOMAIN query_vector |-> query_vector[t] * query_vector[t]],
                    DOMAIN query_vector)
        found == {t \in DOMAIN query_vector : HasEntry(ix, t)}
        candidate_docs == UNION {PostingDocs(get_inverted_index_entry(ix, t)) : t \in found}
        in_doc(d) == {t \in found : d \in PostingDocs(get_inverted_index_entry(ix, t))}
        doc_vector(d) ==
            [t \in in_doc(d) |-> postings_dict(get_inverted_index_entry(ix, t))[d].tf_idf.n]
        all_terms(d) == {u \in DOMAIN ix.inverted_index :
                            d \in PostingDocs(ix.inverted_index[u])}
        weight(d, u) == postings_dict(ix.inverted_index[u])[d].tf_idf.n
        doc_length_squared(d) ==
            IF in_doc(d) = {} THEN 0
            ELSE SumOver([u \in all_terms(d) |-> weight(d, u) * weight(d, u)],
                         all_terms(d))
        dot_product(d) ==
            SumOver([t \in in_doc(d) |-> query_vector[t] * doc_vector(d)[t]], in_doc(d))
        scored == SelectSeq(Iterate(candidate_docs, iter),
                            LAMBDA d : /\ d \in DOMAIN ix.document_list
                                       /\ doc_length_squared(d) # 0
                                       /\ dot_product(d) > 0)
        results == [i \in DOMAIN scored |->
                       QueryResult(scored[i],
                                   Reduce([n |-> dot_product(scored[i]) * dot_product(scored[i]),
                                           d |-> query_length_squared
                                                   * doc_length_squared(scored[i])]))]
    IN  StoreAndCut(Enumerated(results))

\* QueryProcessor.vector_space_search. Every posting of a document has the
\* document's length as the denominator of its tf_idf, so the length cancels
\* in the cosine and the numerators stand for the document vector; the score
\* kept is the square of the cosine, which orders results as the cosine does.
vector_space_search(ix, terms, iter, count) ==
    IF terms = <<>>
    THEN Outcome(<<>>, count)
    ELSE
    LET query_vector == Counter(terms)
        query_length_squared ==
            SumOver([t \in DOMAIN query_vector |-> query_vector[t] * query_vector[t]],
                    DOMAIN query_vector)
        found == {t \in DOMAIN query_vector : HasEntry(ix, t)}
        candidate_docs == UNION {PostingDocs(get_inverted_index_entry(ix, t)) : t \in found}
        in_doc(d) == {t \in found : d \in PostingDocs(get_inverted_index_entry(ix, t))}
        doc_vector(d) ==
            [t \in in_doc(d) |-> postings_dict(get_inverted_index_entry(ix, t))[d].tf_idf.n]
        doc_length_squared(d) ==
            SumOver([t \in in_doc(d) |-> doc_vector(d)[t] * doc_vector(d)[t]], in_doc(d))
        dot_product(d) ==
            SumOver([t \in in_doc(d) |-> query_vector[t] * doc_vector(d)[t]], in_doc(d))
        scored == SelectSeq(Iterate(candidate_docs, iter),
                            LAMBDA d : /\ d \in DOMAIN ix.document_list
                                       /\ doc_length_squared(d) # 0
                                       /\ dot_product(d) > 0)
        results == [i \in DOMAIN scored |->
                       QueryResult(scored[i],
                                   Reduce([n |-> dot_product(scored[i]) * dot_product(scored[i]),
                                           d |-> query_length_squared
                                                   * doc_length_squared(scored[i])]))]
    IN  StoreAndCut(Enumerated(results))

\* a variant that looks for every later term one position too far
consecutive_skipping(positions_lists, start_pos) ==
    \A i \in 2..Len(positions_lists) : (start_pos + i) \in Range(positions_lists[i])

\* lines 337-342: the later terms follow start_pos one position after another
consecutive(positions_lists, start_pos) ==
    \A i \in 2..Len(positions_lists) : (start_pos + (i - 1)) \in Range(positions_lists[i])

\* QueryProcessor.phrase_search
phrase_search(ix, terms, iter, count) ==
    IF terms = <<>>
    THEN Outcome(<<>>, count)
    ELSE IF \E i \in DOMAIN terms : ~HasEntry(ix, terms[i])
    THEN Outcome(<<>>, count)
    ELSE
    LET term_postings(i) == postings_dict(get_inverted_index_entry(ix, terms[i]))
        common_docs == {d \in DOMAIN term_postings(1) :
                           \A i \in DOMAIN terms : d \in DOMAIN term_postings(i)}
        positions_lists(d) == [i \in DOMAIN terms |-> term_postings(i)[d].positions]
        phrase_found(d) ==
            \E start_pos \in Range(positions_lists(d)[1]) :
                consecutive(positions_lists(d), start_pos)
        avg_score(d) ==
            LET total_score == ScoreSum([i \in DOMAIN terms |-> term_postings(i)[d].tf_idf])
            IN  Reduce([n |-> total_score.n, d |-> total_score.d * Len(terms)])
        matched == SelectSeq(Iterate(common_docs, iter), phrase_found)
        results == [i \in DOMAIN matched |-> QueryResult(matched[i], avg_score(matched[i]))]
    IN  StoreAndCut(Enumerated(results))

\* lines 378-389: the evaluator of the plan
RunPlan(ix, parsed, iter, count) ==
    CASE parsed.query_type = "phrase" -> phrase_search(ix, parsed.terms, iter, count)
      [] parsed.query_type = "boolean_or" -> boolean_or_search(ix, parsed.terms, iter, count)
      [] parsed.query_type = "boolean_and" -> boolean_and_search(ix, parsed.terms, iter, count)
      [] parsed.query_type = "boolean_not" ->
             boolean_not_search(ix, parsed.include, parsed.exclude, count)
      [] parsed.query_type = "vector" -> vector_space_search(ix, parsed.terms, iter, count)
      [] OTHER -> Outcome(<<>>, count)

\* QueryProcessor.process_query on a built index
process_query(ix, query, iter, count) == RunPlan(ix, parse_query(query), iter, count)

---------------------------------------------------------------------------
(* SpecQuery: any sequence of process_query calls on one QueryProcessor,  *)
(* whose indexer was built from crawled documents or builds from its      *)
(* archive at the first query                                             *)

W_zebra == <<"z", "e", "b", "r", "a">>
QUOTE == <<"\"">>

\* queries to which more than one pattern applies
QuotedThenOr == QUOTE \o T_cat_dog \o QUOTE \o SP \o KW_or \o SP \o W_bird
OrThenAnd == W_cat \o SP \o KW_or \o SP \o W_dog \o SP \o KW_and \o SP \o W_bird
AndThenBut == W_cat \o SP \o KW_and \o SP \o W_dog \o SP \o KW_but \o SP \o W_bird

\* the query strings of the model: empty and blank queries, vector queries
\* with known, repeated, unknown and ubiquitous terms, the three boolean
\* forms with known and unknown terms and with capitals, and phrases
Queries ==
    {<<>>,
     SP \o SP,
     W_cat,
     W_dog,
     W_zebra,
     W_dog \o SP \o W_bird,
     W_dog \o SP \o W_dog \o SP \o W_cat,
     W_cat \o SP \o KW_and \o SP \o W_zebra,
     W_cat \o SP \o KW_and \o SP \o W_dog,
     W_cat \o SP \o KW_or \o SP \o W_bird,
     <<"C", "a", "t", " ", "O", "R", " ", "B", "i", "r", "d">>,
     W_dog \o SP \o KW_but \o SP \o W_cat,
     W_zebra \o SP \o KW_but \o SP \o W_cat,
     QUOTE \o T_cat_dog \o QUOTE,
     QUOTE \o W_zebra \o SP \o W_cat \o QUOTE,
     QuotedThenOr,
     OrThenAnd,
     AndThenBut}

Page(url, html) == [url |-> url, html |-> html]
Doc_a == Page(U_a, Html(TRUE, T_cat_dog, <<>>))
Doc_b == Page(U_b, Html(TRUE, T_dog_bird, <<>>))
Doc_da == Page(U_da, Html(TRUE, T_mixed, <<>>))
Doc_bad == Page(U_bad, Html(FALSE, <<>>, <<>>))

\* the crawled-document maps of the model
QueryCorpora == {<<>>, <<Doc_a>>, <<Doc_a, Doc_b>>, <<Doc_a, Doc_b, Doc_da>>}

\* the archives of the model, for an indexer that builds at the first query
QueryArchives == {<<Doc_b, Doc_a>>, <<Doc_b, Doc_bad>>}

\* every arrangement of the elements of S
Orders(S) == {s \in InjectiveSeqs(S, Cardinality(S)) : Len(s) = Cardinality(S)}

InitQuery ==
    /\ SpiderIdle /\ QueryNew /\ IdsIdle
    /\ anchor_texts_map = EmptyDict
    /\ indexer = NewIndexer
    /\ raised = "none"
    /\ \/ /\ pc = "build"
          /\ documents \in QueryCorpora
          /\ ArchiveIdle
       \/ /\ pc = "zip"
          /\ documents = <<>>
          /\ zip_exists = TRUE /\ zip_valid = TRUE
          /\ \E corpus \in QueryArchives :
                /\ zip_names = [i \in DOMAIN corpus |-> corpus[i].url]
                /\ zip_content = [f \in {corpus[i].url : i \in DOMAIN corpus} |->
                                     corpus[CHOOSE i \in DOMAIN corpus : corpus[i].url = f].html]

\* one call query_processor.process_query(query); the index is built from
\* the archive first when the indexer is not indexed (lines 373-374)
ProcessQuery ==
    /\ pc \in {"built", "zip"}
    /\ \E draws \in [IF indexer.is_indexed THEN {} ELSE DOMAIN zip_names -> Draws] :
       \E b \in {IF ~indexer.is_indexed
                 THEN build_index(indexer, zip_exists, zip_valid, zip_names,
                                  zip_content, draws)
                 ELSE [ix |-> indexer, raised |-> "none", possible |-> TRUE]} :
          /\ b.possible
          /\ indexer' = b.ix
          /\ IF b.raised # "none"
             THEN /\ raised' = b.raised
                  /\ pc' = "failed"
                  /\ UNCHANGED query_vars
             ELSE /\ \E query \in Queries :
                     \E parsed \in {parse_query(query)} :
                     \E iter \in Orders(DOMAIN b.ix.document_list) :
                     \E r \in {RunPlan(b.ix, parsed, iter, last_total_count)} :
                        /\ last_result' = r.results
                        /\ last_total_count' = r.last_total_count
                        /\ last_query' = query
                  /\ UNCHANGED callers
                  /\ pc' = "built"
                  /\ UNCHANGED raised
    /\ UNCHANGED <<archive_vars, crawl_vars, build_vars, id_vars>>

NextQuery ==
    \/ BuildIndexFromCrawledDocuments
    \/ ProcessQuery

SpecQuery == InitQuery /\ [][NextQuery]_vars

\* C1: after each process_query call last_total_count is the number of
\* documents that match the call's query: while the result is shorter than
\* the top-K limit nothing was cut off, so the count is the length of the
\* returned list, and it is 0 whenever the call returned an empty list.
C1_TotalCountIsMatchCount ==
    (Built /\ Len(last_result) < TopK) => last_total_count = Len(last_result)

---------------------------------------------------------------------------
(* SpecTopK: the first process_query call on an index built from a         *)
(* crawled-document map, small or with more documents than the limit of    *)
(* the heapq branch                                                        *)

W_foo == <<"f", "o", "o">>
W_bar == <<"b", "a", "r">>

\* the key of the i-th document of a large map
CorpusUrl(i) == <<"p">> \o Decimal(i) \o <<".", "h", "t", "m", "l">>

\* The text of the i-th document of a large map c: "foo" (twice in the
\* odd documents) in the first c.foo documents, then "bar" in the last
\* c.bar documents.
CorpusText(c, i) ==
    LET foos == IF i > c.foo THEN <<>>
                ELSE IF i % 2 = 1 THEN W_foo \o SP \o W_foo ELSE W_foo
        bars == IF i > c.n - c.bar THEN W_bar ELSE <<>>
    IN  IF foos # <<>> /\ bars # <<>> THEN foos \o SP \o bars ELSE foos \o bars

\* a crawled-document map of c.n documents
LargeCorpus(c) == [i \in 1..c.n |-> Page(CorpusUrl(i), Html(TRUE, CorpusText(c, i), <<>>))]

\* the large maps of the model: 150 documents that all hold foo; foo in all
\* and bar in 120; foo in 120 and bar in 130, both in exactly 100; 101
\* documents with foo in 100 and bar in all
LargeShapes ==
    {[n |-> 150, foo |-> 150, bar |-> 0],
     [n |-> 150, foo |-> 150, bar |-> 120],
     [n |-> 150, foo |-> 120, bar |-> 130],
     [n |-> 101, foo |-> 100, bar |-> 101]}

LargeCorpora == {LargeCorpus(c) : c \in LargeShapes}

\* a small map in which dog is in every document and one document holds
\* cat and bird in unequal shares
T_cat_bird_bird_dog == W_cat \o SP \o W_bird \o SP \o W_bird \o SP \o W_dog
MixedCorpus == <<Doc_a, Doc_b, Page(U_c, Html(TRUE, T_cat_bird_bird_dog, <<>>))>>

\* the maps of SpecTopK
TopKCorpora == QueryCorpora \cup {MixedCorpus} \cup LargeCorpora

\* the query strings of SpecTopK: the five plans on foo and bar and on
\* cat, dog and bird, with phrases of one, two and three tokens, one of
\* them with a repeated token
TopKQueries ==
    {W_foo,
     W_bar,
     W_cat,
     W_dog,
     W_cat \o SP \o W_bird,
     W_cat \o SP \o W_cat,
     W_foo \o SP \o W_bar,
     W_foo \o SP \o KW_or \o SP \o W_bar,
     W_foo \o SP \o KW_and \o SP \o W_bar,
     W_foo \o SP \o KW_but \o SP \o W_bar,
     W_bar \o SP \o KW_but \o SP \o W_foo,
     W_foo \o SP \o KW_but \o SP \o W_zebra,
     QUOTE \o W_foo \o SP \o W_bar \o QUOTE,
     QUOTE \o W_foo \o SP \o W_foo \o SP \o W_bar \o QUOTE,
     QUOTE \o W_bar \o QUOTE,
     QUOTE \o W_dog \o QUOTE,
     QUOTE \o W_cat \o SP \o W_dog \o SP \o W_cat \o QUOTE,
     W_cat \o SP \o KW_and \o SP \o W_dog,
     W_dog \o SP \o KW_but \o SP \o W_cat,
     W_zebra \o SP \o KW_but \o SP \o W_cat}

\* the ids of the documents in the order they were indexed
IndexedOrder(ix, docs) == [i \in DOMAIN docs |-> ix.path_to_id[docs[i].url]]

\* s from its k-th element on, then its first k - 1 elements
Rotate(s, k) == SubSeq(s, k, Len(s)) \o SubSeq(s, 1, k - 1)

Reverse(s) == [i \in DOMAIN s |-> s[Len(s) + 1 - i]]

\* the orders in which the model lets a set of document ids be iterated:
\* as indexed, reversed, and starting from the middle
SampleOrders(ix, docs) ==
    LET ids == IndexedOrder(ix, docs)
    IN  {ids, Reverse(ids), Rotate(ids, (Len(ids) \div 2) + 1)}

InitTopK ==
    /\ ArchiveIdle /\ SpiderIdle /\ QueryNew /\ IdsIdle
    /\ documents \in TopKCorpora
    /\ anchor_texts_map = EmptyDict
    /\ indexer = NewIndexer
    /\ pc = "build"
    /\ raised = "none"

\* The draws of the _generate_document_id calls of a build: any draws for
\* a small map; for a large map every call draws the lowest number first.
SampleDraws(docs) ==
    IF docs \notin LargeCorpora
    THEN [DOMAIN docs -> Draws]
    ELSE {[i \in DOMAIN docs |-> [exhausted |-> FALSE, r |-> RandomLow]]}

\* indexer.build_index_from_crawled_documents(documents, {})
BuildLargeIndex ==
    /\ pc = "build"
    /\ \E draws \in SampleDraws(documents) :
       \E res \in {build_index_from_crawled_documents(
                      indexer, documents, anchor_texts_map, draws)} :
          /\ res.possible
          /\ indexer' = res.ix
          /\ raised' = res.raised
          /\ pc' = IF res.raised = "none" THEN "built" ELSE "failed"
    /\ UNCHANGED <<archive_vars, crawl_vars, build_vars, query_vars, id_vars>>

\* the call query_processor.process_query(query) on the built index
ProcessQuerySampled ==
    /\ pc = "built"
    /\ pc' = "queried"
    /\ \E query \in TopKQueries :
       \E parsed \in {parse_query(query)} :
       \E iter \in SampleOrders(indexer, documents) :
       \E r \in {RunPlan(indexer, parsed, iter, last_total_count)} :
          /\ last_result' = r.results
          /\ last_total_count' = r.last_total_count
          /\ last_query' = query
    /\ UNCHANGED <<archive_vars, crawl_vars, build_vars, id_vars, indexer, raised, callers>>

NextTopK ==
    \/ BuildLargeIndex
    \/ ProcessQuerySampled

SpecTopK == InitTopK /\ [][NextTopK]_vars

---------------------------------------------------------------------------
(* Claims on one query against a built index (SpecTopK) *)

Queried == pc = "queried"

\* the ids of the documents that the call returned
ReturnedIds == {last_result[k].doc_id : k \in DOMAIN last_result}

\* the id under which the i-th document of the map was indexed
IdOfDocument(i) == indexer.path_to_id[documents[i].url]

\* the filtered token stream of the i-th document of the map
StreamOfDocument(i) == TokenStream(get_text(documents[i].html))

\* the runs of consecutive tokens of a stream
Windows(stream) ==
    {SubSeq(stream, i, j) : i \in DOMAIN stream, j \in DOMAIN stream} \ {<<>>}

\* the phrase query "t1 t2 ... tk"
PhraseQuery(tokens) == QUOTE \o join(SP, tokens) \o QUOTE

\* the documents of the map that hold the tokens of the phrase query that
\* was asked at consecutive positions
HoldersOfPhrase ==
    {i \in DOMAIN documents :
        \E w \in Windows(StreamOfDocument(i)) : last_query = PhraseQuery(w)}

ClaimTerms == {W_foo, W_bar, W_cat, W_dog, W_bird, W_zebra}

\* the queries `a and b`, `a or b` and `a but b`
AndQuery(a, b) == a \o SP \o KW_and \o SP \o b
OrQuery(a, b) == a \o SP \o KW_or \o SP \o b
ButQuery(a, b) == a \o SP \o KW_but \o SP \o b

\* the ids that process_query(query) returns on the index, set iterated as iter
IdsReturnedFor(query, iter) ==
    LET r == process_query(indexer, query, iter, 0).results
    IN  {r[k].doc_id : k \in DOMAIN r}

\* the number of matches of process_query(query) on the index
CountFor(query) ==
    process_query(indexer, query, IndexedOrder(indexer, documents), 0).last_total_count

\* C12 (as claimed): for distinct terms a and b and any built index, every
\* document returned by `a and b` is also returned by `a or b`.
C12_AndWithinOr ==
    Queried =>
      \A a, b \in ClaimTerms :
         (a # b /\ last_query = AndQuery(a, b)) =>
            \A iter \in SampleOrders(indexer, documents) :
               ReturnedIds \subseteq IdsReturnedFor(OrQuery(a, b), iter)

\* C12 (amended): for distinct terms a and b, every document returned by
\* `a and b` is also returned by `a or b` whenever at most 100 documents
\* hold a or b, so that the result of `a or b` is not cut off.
C12_AndWithinUncutOr ==
    Queried =>
      \A a, b \in ClaimTerms :
         (a # b /\ last_query = AndQuery(a, b) /\ CountFor(OrQuery(a, b)) <= TopK) =>
            \A iter \in SampleOrders(indexer, documents) :
               ReturnedIds \subseteq IdsReturnedFor(OrQuery(a, b), iter)

\* `cat and dog` returned a document, and `cat or dog` more than that
C12_Witness ==
    /\ Queried
    /\ last_query = AndQuery(W_cat, W_dog)
    /\ Len(last_result) = 1
    /\ CountFor(OrQuery(W_cat, W_dog)) = 2

\* the ids of the indexed documents that have a posting for term t
DocsHolding(t) ==
    IF t \in DOMAIN indexer.inverted_index
    THEN {indexer.inverted_index[t].postings[i].doc_id :
             i \in DOMAIN indexer.inverted_index[t].postings}
    ELSE {}

\* no document returned by `a but b` has a posting for b or is returned by
\* the query `b`, and nothing is returned when a is unknown
ButExcludes(a, b) ==
    /\ ReturnedIds \cap DocsHolding(b) = {}
    /\ \A iter \in SampleOrders(indexer, documents) :
          ReturnedIds \cap IdsReturnedFor(b, iter) = {}
    /\ DocsHolding(a) = {} => last_result = <<>>

\* C13 (as claimed): for distinct terms a and b, no document returned by
\* `a but b` has a posting for b or is returned by the query `b`; when b is
\* unknown the result is every document containing a, and when a is unknown
\* the result is empty.
C13_ButDisjointFromExcluded ==
    Queried =>
      \A a, b \in ClaimTerms :
         (a # b /\ last_query = ButQuery(a, b)) =>
            /\ ButExcludes(a, b)
            /\ DocsHolding(b) = {} => ReturnedIds = DocsHolding(a)

\* C13 (amended): as claimed, except that when b is unknown the result is
\* every document containing a only if these are at most 100; if they are
\* more, the result is 100 of the documents containing a.
C13_ButDisjointUpToLimit ==
    Queried =>
      \A a, b \in ClaimTerms :
         (a # b /\ last_query = ButQuery(a, b)) =>
            /\ ButExcludes(a, b)
            /\ DocsHolding(b) = {} =>
                  /\ ReturnedIds \subseteq DocsHolding(a)
                  /\ Cardinality(ReturnedIds) =
                        IF Cardinality(DocsHolding(a)) > TopK
                        THEN TopK ELSE Cardinality(DocsHolding(a))

\* `foo but bar` returned documents while other documents hold bar
C13_Witness ==
    /\ Queried
    /\ last_query = ButQuery(W_foo, W_bar)
    /\ last_result # <<>>
    /\ DocsHolding(W_bar) # {}

\* The list returned is the cut of the list matched: the matches are
\* distinct documents; if they are more than TopK exactly TopK of them are
\* returned, else all of them; each is returned once; the scores do not
\* increase along the list; and no match that was left out has a higher
\* score than one that was returned.
IsTopOf(returned, matched) ==
    /\ Cardinality({matched[i].doc_id : i \in DOMAIN matched}) = Len(matched)
    /\ Len(returned) = IF Len(matched) > TopK THEN TopK ELSE Len(matched)
    /\ Range(returned) \subseteq Range(matched)
    /\ Cardinality(Range(returned)) = Len(returned)
    /\ \A i \in 1..(Len(returned) - 1) :
          ~ScoreLess(returned[i].score, returned[i + 1].score)
    /\ \A x \in Range(matched) \ Range(returned) :
          \A k \in DOMAIN returned : ~ScoreLess(returned[k].score, x.score)

\* what the call that was made left, for an iteration order it can have had
LeftBy(iter) == RunPlan(indexer, parse_query(last_query), iter, 0)

\* left is what the call left, and its list is the cut of its matches
IsCutOf(left) == left.results = last_result /\ IsTopOf(last_result, left.matched)

\* C14: for each of the five query plans, the returned list is the matches
\* cut to the 100 highest scores when there are more than 100, and all the
\* matches otherwise, each once and in non-increasing score order.
C14_TopKOfMatches ==
    Queried =>
      \E iter \in SampleOrders(indexer, documents) : IsCutOf(LeftBy(iter))

\* the five plans with more than 100 matches each, and a plan with fewer
C14_WitnessOf(query_type) ==
    /\ Queried
    /\ parse_query(last_query).query_type = query_type
    /\ last_total_count > TopK
    /\ Len(last_result) = TopK

C14_Witness ==
    /\ C14_WitnessOf("phrase")
    /\ last_result[1].score # last_result[TopK].score

\* C15 (as claimed): on an index built from 150 documents that each contain
\* the token foo, the query `foo` returns a list of length 100 and the total
\* count is 150.
C15_TopKScenario ==
    (/\ Queried
     /\ Len(documents) = 150
     /\ \A i \in DOMAIN documents : W_foo \in Range(StreamOfDocument(i))
     /\ last_query = W_foo)
    => (Len(last_result) = TopK /\ last_total_count = 150)

---------------------------------------------------------------------------
(* Claims on the scenarios of the two-document corpus (SpecQuery) *)

\* the paths of the documents that the last call returned
ReturnedPaths == {indexer.id_to_path[last_result[k].doc_id] : k \in DOMAIN last_result}

\* the index was built from a.html = "cat dog" and b.html = "dog bird"
ScenarioOne == Built /\ documents = <<Doc_a, Doc_b>>

\* the boolean queries and the query `cat` of scenario 1 give what is claimed
ScenarioOneOthers ==
    /\ last_query = W_cat => ReturnedPaths = {U_a}
    /\ last_query = OrQuery(W_cat, W_bird) => ReturnedPaths = {U_a, U_b}
    /\ last_query = AndQuery(W_cat, W_dog) => ReturnedPaths = {U_a}
    /\ last_query = ButQuery(W_dog, W_cat) => ReturnedPaths = {U_b}

\* C16 (as claimed): on the corpus a.html = "cat dog", b.html = "dog bird"
\* the query `dog` returns both documents, tied at score 0, `cat` returns
\* only a.html, `cat or bird` both, `cat and dog` only a.html and
\* `dog but cat` only b.html.
C16_ScenarioOne ==
    ScenarioOne =>
      /\ last_query = W_dog =>
            /\ ReturnedPaths = {U_a, U_b}
            /\ \A k \in DOMAIN last_result : ScoreEq(last_result[k].score, ScoreZero)
      /\ ScenarioOneOthers

---------------------------------------------------------------------------
(* Claims on terms that are in every document (SpecTopK) *)

\* the term u has a posting for every indexed document
InEveryDocument(u) ==
    /\ indexer.document_list # EmptyDict
    /\ DocsHolding(u) = DOMAIN indexer.document_list

\* the last call was a vector query
VectorAsked == Queried /\ parse_query(last_query).query_type = "vector"

\* the results of the last query with the term u added to it
WithTermAdded(u, iter) == process_query(indexer, last_query \o SP \o u, iter, 0).results

DocIds(results) == [k \in DOMAIN results |-> results[k].doc_id]

\* every posting of a term that is in every document has TF-IDF 0, and a
\* vector query made only of such terms returns no documents
ZeroWeight ==
    /\ \A u \in DOMAIN indexer.inverted_index :
          InEveryDocument(u) =>
             \A p \in Range(indexer.inverted_index[u].postings) :
                ScoreEq(p.tf_idf, ScoreZero)
    /\ (VectorAsked /\ \A u \in Range(parse_query(last_query).terms) : InEveryDocument(u))
          => last_result = <<>>

\* the place of document d in a result list
PlaceOf(results, d) == CHOOSE k \in DOMAIN results : results[k].doc_id = d

\* two documents that the last call returned with different scores are
\* both in results, in the same order
KeepsScoreOrder(results) ==
    \A i, j \in DOMAIN last_result :
       (i < j /\ ~ScoreEq(last_result[i].score, last_result[j].score)) =>
          /\ last_result[i].doc_id \in Range(DocIds(results))
          /\ last_result[j].doc_id \in Range(DocIds(results))
          /\ PlaceOf(results, last_result[i].doc_id)
                < PlaceOf(results, last_result[j].doc_id)

---------------------------------------------------------------------------
(* Claims on the choice of the plan (SpecQuery) *)

\* q holds a double quote, one or more other characters, and a double quote
HasQuotedPart(q) ==
    \E i, j \in DOMAIN q :
       /\ i + 1 < j
       /\ q[i] = "\"" /\ q[j] = "\""
       /\ \A k \in (i + 1)..(j - 1) : q[k] # "\""

\* the first plan that applies to q, in the order phrase, OR, AND,
\* difference, vector
FirstPlan(q) ==
    IF HasQuotedPart(q) THEN "phrase"
    ELSE IF pattern_search(q, KW_or, 1) # 0 THEN "boolean_or"
    ELSE IF pattern_search(q, KW_and, 1) # 0 THEN "boolean_and"
    ELSE IF pattern_search(q, KW_but, 1) # 0 THEN "boolean_not"
    ELSE "vector"

\* what the evaluator of one plan returns for the parsed query
EvaluatorOf(query_type, parsed, iter) ==
    CASE query_type = "phrase" -> phrase_search(indexer, parsed.terms, iter, 0).results
      [] query_type = "boolean_or" -> boolean_or_search(indexer, parsed.terms, iter, 0).results
      [] query_type = "boolean_and" -> boolean_and_search(indexer, parsed.terms, iter, 0).results
      [] query_type = "boolean_not" ->
             boolean_not_search(indexer, parsed.include, parsed.exclude, 0).results
      [] query_type = "vector" -> vector_space_search(indexer, parsed.terms, iter, 0).results

\* C18: parse_query gives every query the first plan that applies, in the
\* order phrase, OR, AND, difference, vector (so a query with a quoted part
\* is a phrase query whatever keywords it holds, and a query that matches
\* the OR and the AND pattern is an OR query), and what process_query
\* returned is what the evaluator of that plan returns.
C18_FirstPlanWins ==
    Built =>
       /\ parse_query(last_query).query_type = FirstPlan(last_query)
       /\ \E iter \in Orders(DOMAIN indexer.document_list) :
             last_result = EvaluatorOf(FirstPlan(last_query), parse_query(last_query), iter)

\* the query with a quoted part and `or` returned the one document that
\* holds the phrase, or the query that matches the OR and the AND pattern
\* returned documents that hold only one of its words
C18_Witness ==
    /\ ScenarioOne
    /\ \/ last_query = QuotedThenOr /\ ReturnedPaths = {U_a}
       \/ last_query = OrThenAnd /\ ReturnedPaths = {U_a, U_b}

---------------------------------------------------------------------------
(* Claims on the entries the crawl reads (Spec) *)

\* the cache has been loaded from a readable archive
CacheLoaded == ArchiveReadable /\ pc \in {"loop", "collect", "crawled"}

\* the crawl has returned, from a readable archive and with room for at
\* least one page
CrawlDone == Crawled /\ ArchiveReadable /\ max_pages # 0

\* the keys of the crawled-document map
CrawledUrls == {spider.html_documents[i].url : i \in DOMAIN spider.html_documents}

\* f ends in .html or .htm whatever its case and is not under __MACOSX
IsCandidate(f) ==
    /\ \/ endswith(lower(f), <<".", "h", "t", "m", "l">>)
       \/ endswith(lower(f), <<".", "h", "t", "m">>)
    /\ ~startswith(f, <<"_", "_", "M", "A", "C", "O", "S", "X">>)

\* C19: every archive entry whose name ends in .html or .htm, compared
\* without regard to case, and that is not under __MACOSX is loaded into the
\* spider's cache, and is crawled when it is the seed.
C19_CandidatesIgnoreCase ==
    \A f \in Range(zip_names) :
       IsCandidate(f) =>
          /\ CacheLoaded => f \in DOMAIN html_cache
          /\ (CrawlDone /\ spider.start_file = f /\ zip_content[f].parses)
                => f \in CrawledUrls

\* a path with forward slashes only and no leading slash
NormalPath(path) == lstrip(replace(path, <<"\\">>, <<"/">>), {"/"})

\* C20: a seed that equals an archive entry name after both are normalized
\* to forward slashes with leading slashes stripped is found and crawled.
C20_TolerantLookup ==
    CrawlDone =>
       \A f \in DOMAIN html_cache :
          (NormalPath(spider.start_file) = NormalPath(f) /\ zip_content[f].parses)
             => CrawledUrls \cap {f, spider.start_file} # {}

---------------------------------------------------------------------------
(* SpecShared: threads that call process_query on one QueryProcessor and   *)
(* then read its last_total_count, as the callers of app_web.py and        *)
(* main_part3.py do                                                        *)

\* the crawled-document maps of SpecShared
SharedCorpora == {<<Doc_a, Doc_b>>, <<Doc_a, Doc_b, Doc_da>>}

\* the queries of the threads: one, two and no matching documents
SharedQueries == {W_cat, OrQuery(W_cat, W_bird), AndQuery(W_cat, W_zebra)}

InitShared ==
    /\ ArchiveIdle /\ SpiderIdle /\ QueryNew /\ IdsIdle
    /\ documents \in SharedCorpora
    /\ anchor_texts_map = EmptyDict
    /\ indexer = NewIndexer
    /\ pc = "build"
    /\ raised = "none"

\* thread c runs "results = query_processor.process_query(query)": the
\* evaluator stores self.last_total_count and the list is returned to c
CallProcessQuery(c) ==
    /\ pc = "built"
    /\ callers[c].at = "idle"
    /\ \E query \in SharedQueries :
       \E iter \in Orders(DOMAIN indexer.document_list) :
       \E r \in {process_query(indexer, query, iter, last_total_count)} :
          /\ last_result' = r.results
          /\ last_total_count' = r.last_total_count
          /\ last_query' = query
          /\ callers' = [callers EXCEPT ![c] =
                            [at |-> "returned", query |-> query, results |-> r.results,
                             stored |-> r.last_total_count, total_count |-> 0]]
    /\ UNCHANGED <<archive_vars, crawl_vars, build_vars, id_vars, indexer, pc, raised>>

\* thread c runs "total_count = query_processor.last_total_count"
ReadTotalCount(c) ==
    /\ callers[c].at = "returned"
    /\ callers' = [callers EXCEPT ![c].at = "read", ![c].total_count = last_total_count]
    /\ UNCHANGED <<archive_vars, crawl_vars, build_vars, id_vars, indexer, pc, raised,
                   last_total_count, last_query, last_result>>

NextShared ==
    \/ BuildIndexFromCrawledDocuments
    \/ \E c \in 1..MaxCallers : CallProcessQuery(c)
    \/ \E c \in 1..MaxCallers : ReadTotalCount(c)

SpecShared == InitShared /\ [][NextShared]_vars

\* the queries of the threads leave the index as it is
IndexKept == [][pc = "built" => indexer' = indexer]_vars

\* a thread that has read the count holds the list its own call returned
\* and the count its own call left in last_total_count
SeesOwn(c) ==
    callers[c].at = "read" =>
       /\ \E iter \in Orders(DOMAIN indexer.document_list) :
             callers[c].results = process_query(indexer, callers[c].query, iter, 0).results
       /\ callers[c].total_count = callers[c].stored

\* C21: queries are safe to run concurrently on a built index: when threads
\* evaluate queries through the same QueryProcessor, each observes the result
\* list and the total count of its own query, never another's.
C21_CallersSeeOwn == \A c \in 1..MaxCallers : SeesOwn(c)

---------------------------------------------------------------------------
(* SpecBuild: any sequence of build_index calls on one HtmlIndexer *)

InitBuild ==
    /\ zip_exists \in BOOLEAN
    /\ zip_valid \in BOOLEAN
    /\ zip_exists \/ ~zip_valid
    /\ zip_names \in ArchiveNames
    /\ zip_content = [f \in Range(zip_names) |-> ArchivePages[f]]
    /\ SpiderIdle /\ BuildIdle /\ QueryNew /\ IdsIdle
    /\ indexer = NewIndexer
    /\ pc = "zip"
    /\ raised = "none"

\* the entries that process_zip_file reads (line 373)
HtmlEntries(names) ==
    {i \in DOMAIN names : endswith(names[i], <<".", "h", "t", "m", "l">>)}

\* one call indexer.build_index(); pc tells how the call ended: "failed"
\* when it raised, "kept" when it found the indexer indexed, "built" when
\* it processed the archive
CallBuildIndex ==
    /\ pc \in {"zip", "built", "kept", "failed"}
    /\ \E draws \in [IF indexer.is_indexed THEN {} ELSE HtmlEntries(zip_names) -> Draws] :
          LET res == build_index(indexer, zip_exists, zip_valid, zip_names,
                                 zip_content, draws)
          IN  /\ res.possible
              /\ indexer' = res.ix
              /\ raised' = res.raised
              /\ pc' = IF res.raised # "none" THEN "failed"
                       ELSE IF indexer.is_indexed THEN "kept" ELSE "built"
    /\ UNCHANGED <<archive_vars, crawl_vars, build_vars, query_vars, id_vars>>

\* between two calls the file at zip_path is removed, damaged or replaced
ArchiveChanges ==
    /\ pc \in {"built", "kept", "failed"}
    /\ zip_exists' \in BOOLEAN
    /\ zip_valid' \in BOOLEAN
    /\ zip_exists' \/ ~zip_valid'
    /\ zip_names' \in ArchiveNames
    /\ zip_content' = [f \in Range(zip_names') |-> ArchivePages[f]]
    /\ UNCHANGED <<crawl_vars, build_vars, query_vars, id_vars, indexer, pc, raised>>

NextBuild ==
    \/ CallBuildIndex
    \/ ArchiveChanges

SpecBuild == InitBuild /\ [][NextBuild]_vars

---------------------------------------------------------------------------
(* Claims on the legacy structures *)

\* the pipeline has indexed the archive directly, by build_index
BuiltFromArchive ==
    /\ pc = "built"
    /\ ArchiveReadable
    /\ spider.discovered_urls = {}
    /\ documents = <<>>

\* the path "./E" of the entry E
PathOfEntry(E) == <<".", "/">> \o E

\* C23: after process_zip_file, file_words has exactly one key for each
\* .html entry of the archive, and the key for the entry E is the path "./"
\* followed by E.
C23_FileWordsKeyedByPath ==
    BuiltFromArchive =>
       DOMAIN indexer.file_words
          = {PathOfEntry(zip_names[i]) : i \in HtmlEntries(zip_names)}

\* the names listed for the word w in word_files
FilesOf(w) == IF w \in DOMAIN indexer.word_files
              THEN Range(indexer.word_files[w]) ELSE {}

\* C24: after a build the two legacy structures agree in both directions:
\* for every key d of file_words and every word w, w is in file_words[d] if
\* and only if d is listed in word_files[w], and every name listed in
\* word_files is a key of file_words.
C24_LegacyConsistent ==
    Built =>
       /\ \A d \in DOMAIN indexer.file_words :
          \A w \in indexer.file_words[d] \cup DOMAIN indexer.word_files :
             w \in indexer.file_words[d] <=> d \in FilesOf(w)
       /\ \A w \in DOMAIN indexer.word_files : FilesOf(w) \subseteq DOMAIN indexer.file_words

\* a built index in which one word is listed for two documents and another
\* word for only one of them
C24_Witness ==
    /\ Built
    /\ \E w1, w2 \in DOMAIN indexer.word_files :
          /\ Cardinality(FilesOf(w1)) = 2
          /\ Cardinality(FilesOf(w2)) = 1
          /\ FilesOf(w2) \subseteq FilesOf(w1)

---------------------------------------------------------------------------
(* SpecCrawl: crawl_breadth_first alone, on the archives of the pipeline   *)
(* and on an archive whose seed links to more documents than one batch     *)
(* holds, with a link cycle, a self-link and a link out of the archive     *)

CrawlArchives == ArchiveNames \cup {WideNames}

CrawlSeeds == Seeds \cup {U_s}

\* the largest max_pages of SpecCrawl
MaxCrawlLimit == 5

InitCrawl ==
    /\ zip_exists \in BOOLEAN
    /\ zip_valid \in BOOLEAN
    /\ zip_exists \/ ~zip_valid
    /\ zip_names \in CrawlArchives
    /\ zip_content = [f \in Range(zip_names) |-> CrawlPages[f]]
    /\ \E start \in CrawlSeeds : spider = NewSpider(start)
    /\ max_pages \in {NoLimit} \cup 0..MaxCrawlLimit
    /\ max_workers \in 1..MaxWorkers
    /\ html_cache = EmptyDict /\ batch = <<>> /\ futures = {}
    /\ BuildIdle /\ QueryNew /\ IdsIdle
    /\ indexer = NewIndexer
    /\ pc = "crawl"
    /\ raised = "none"

NextCrawl ==
    \/ CrawlLoadCache
    \/ CrawlNextBatch
    \/ CrawlCollectResult

SpecCrawl == InitCrawl /\ [][NextCrawl]_vars

---------------------------------------------------------------------------
(* Claims on the crawl (SpecCrawl) *)

\* the link targets that the worker returns for the cached document u
LinkTargets(u) ==
    {l.url : l \in Range(FutureResult(html_cache, u))}

RECURSIVE Within(_)
\* the URLs at link distance k or less from the seed, through cached
\* documents
Within(k) ==
    IF k = 0 THEN {spider.start_file}
    ELSE LET near == Within(k - 1)
         IN  near \cup UNION {LinkTargets(u) : u \in near \cap DOMAIN html_cache}

\* no shortest path is longer than the number of cached documents
Farthest == Cardinality(DOMAIN html_cache)

\* the cached documents that can be reached from the seed
ReachableCached == Within(Farthest) \cap DOMAIN html_cache

\* the shortest link distance of a reachable u from the seed
Distance(u) == CHOOSE k \in 0..Farthest :
                  /\ u \in Within(k)
                  /\ \A j \in 0..(k - 1) : u \notin Within(j)

\* C25: the crawl is breadth-first: URLs are marked visited in
\* non-decreasing order of their shortest link distance from the seed, for
\* every order in which the workers of a batch complete. The URLs of a batch
\* are marked in the order of the batch, and everything visited so far is no
\* farther from the seed than any cached, reachable document not yet visited.
C25_BreadthFirst ==
    CacheLoaded =>
       /\ \A i, j \in DOMAIN batch :
             i < j => Distance(batch[i]) <= Distance(batch[j])
       /\ \A v \in spider.visited_urls :
          \A u \in ReachableCached \ spider.visited_urls :
             Distance(v) <= Distance(u)

\* C26: with max_pages = m, pages_crawled never exceeds m in any state of
\* the crawl, and the crawl ends with exactly m crawled documents whenever
\* at least m cached documents are reachable from the seed.
C26_MaxPagesBounds ==
    max_pages # NoLimit =>
       /\ spider.pages_crawled <= max_pages
       /\ (Crawled /\ ArchiveReadable /\ Cardinality(ReachableCached) >= max_pages)
             => /\ Len(spider.html_documents) = max_pages
                /\ spider.pages_crawled = max_pages

\* a crawl with a limit of five pages has ended with five documents, on an
\* archive in which more than five can be reached
C26_Witness ==
    /\ Crawled
    /\ max_pages = 5
    /\ Cardinality(ReachableCached) > 5
    /\ Len(spider.html_documents) = 5

\* C27: in every state of the crawl the keys of html_documents are visited,
\* every visited URL is discovered, every crawled key is an HTML entry of
\* the archive, each document is recorded once, and pages_crawled is the
\* number of keys of html_documents.
C27_CrawlSetsNested ==
    /\ CrawledUrls \subseteq spider.visited_urls
    /\ spider.visited_urls \subseteq spider.discovered_urls
    /\ CrawledUrls \subseteq {f \in Range(zip_names) : IsCandidate(f)}
    /\ Cardinality(CrawledUrls) = Len(spider.html_documents)
    /\ spider.pages_crawled = Len(spider.html_documents)

\* a crawl has ended with three or more documents, having discovered a URL
\* that is not an entry of the archive
C27_Witness ==
    /\ Crawled
    /\ Len(spider.html_documents) >= 3
    /\ \E u \in spider.discovered_urls : u \notin Range(zip_names)

\* The coordinator keeps running its loop and as_completed delivers every
\* future of a batch: a crawl step that stays possible is taken.
FairSpecCrawl == SpecCrawl /\ WF_vars(NextCrawl)

\* how often u occurs in the queue
TimesQueued(sp, u) == Cardinality({i \in DOMAIN sp.url_queue : sp.url_queue[i] = u})

\* a step appends only URLs that were not discovered before, once each, and
\* keeps what was discovered
AppendedOnce ==
    /\ spider.discovered_urls \subseteq spider'.discovered_urls
    /\ \A u \in spider'.discovered_urls :
          TimesQueued(spider', u) > TimesQueued(spider, u) =>
             /\ u \notin spider.discovered_urls
             /\ TimesQueued(spider', u) = 1

\* a step that submits a batch submits documents that were not visited
\* before, once each, and keeps what was visited
SubmittedOnce ==
    /\ spider.visited_urls \subseteq spider'.visited_urls
    /\ (pc = "loop" /\ pc' = "collect") =>
          /\ \A i \in DOMAIN batch' : batch'[i] \notin spider.visited_urls
                                         /\ batch'[i] \in spider'.visited_urls
          /\ \A i, j \in DOMAIN batch' : batch'[i] = batch'[j] => i = j

\* C28: for every archive, with link cycles, self-links and links to entries
\* that are not in the archive, the crawl terminates; each URL is appended
\* to the queue at most once and each document is submitted to a worker at
\* most once.
C28_CrawlTerminates ==
    /\ <>Crawled
    /\ [][AppendedOnce /\ SubmittedOnce]_vars

\* the crawl of the archive with a cycle, a self-link and a link out of the
\* archive has ended with all nine documents
C28_Witness ==
    /\ Crawled
    /\ zip_names = WideNames
    /\ Len(spider.html_documents) = 9
    /\ U_zz \in spider.discovered_urls

\* the links that the workers return for the cached documents that can be
\* reached from the seed, each as the document and its place in the result
LinksOfReachable ==
    UNION {{<<u, i>> : i \in DOMAIN FutureResult(html_cache, u)} :
              u \in ReachableCached}

\* link p of the workers' results
LinkAt(p) == FutureResult(html_cache, p[1])[p[2]]

\* how often anchor text a was stored for target t
TimesStored(t, a) ==
    Cardinality({i \in DOMAIN spider.anchor_texts[t] : spider.anchor_texts[t][i] = a})

\* how often a link with the non-empty text a leads to t from a reachable
\* cached document
TimesLinked(t, a) ==
    Cardinality({p \in LinksOfReachable :
                    LinkAt(p).url = t /\ LinkAt(p).anchor_text = a /\ a # <<>>})

\* C29: with max_pages unset, the crawl ends with exactly the cached
\* entries that can be reached from the seed through the links of crawled
\* documents; this set, the multiset of anchor texts of every link target
\* and total_links_found are fixed by the archive and the seed, so they are
\* the same for every order in which the workers complete.
C29_FinalCrawlDetermined ==
    (Crawled /\ max_pages = NoLimit) =>
       /\ CrawledUrls = ReachableCached
       /\ spider.total_links_found = Cardinality(LinksOfReachable)
       /\ DOMAIN spider.anchor_texts = {LinkAt(p).url : p \in LinksOfReachable}
       /\ \A t \in DOMAIN spider.anchor_texts :
          \A a \in Range(spider.anchor_texts[t])
                     \cup {LinkAt(p).anchor_text : p \in LinksOfReachable} :
             TimesStored(t, a) = TimesLinked(t, a)

\* the crawl of the nine-document archive has ended without a limit, and
\* x.html completed before e.html although e.html was submitted first
C29_Witness ==
    /\ Crawled /\ max_pages = NoLimit
    /\ zip_names = WideNames /\ spider.start_file = U_s
    /\ Len(spider.html_documents) = 9
    /\ spider.anchor_texts[U_w] = <<W_dog, W_bird>>

---------------------------------------------------------------------------
(* Claims on vector queries of one term (SpecTopK) *)

\* the last call was a vector query whose terms are all the same term
OneTermAsked ==
    /\ VectorAsked
    /\ Cardinality(Range(parse_query(last_query).terms)) = 1

\* the term of such a query
TheTerm == lower(parse_query(last_query).terms[1])

\* the TF-IDF of the term t in the document d
WeightOf(d, t) == postings_dict(indexer.inverted_index[t])[d].tf_idf

\* the first TopK of the documents that hold t with a weight other than 0,
\* in the order iter
HoldersInOrder(t, iter) ==
    LET held == SelectSeq(iter, LAMBDA d : /\ d \in DocsHolding(t)
                                           /\ ~ScoreEq(WeightOf(d, t), ScoreZero))
    IN  IF Len(held) > TopK THEN SubSeq(held, 1, TopK) ELSE held

=============================================================================
